---- MODULE Spec2Model ----
(***************************************************************************)
(* A model of nock's interception engine: the Scope registry               *)
(* (lib/common.js, scope part), the per-request router                     *)
(* (lib/intercepted_request_router.js) and the playback it hands a matched *)
(* request to.  Node's scheduling is modelled by two queues: the           *)
(* process.nextTick queue, drained before any other callback runs, and the *)
(* queue of setImmediate/timer callbacks.                                  *)
(***************************************************************************)
EXTENDS Integers, Sequences, FiniteSets, TLC

\* ------------------------------------------------------------------ bounds
NumReq   == 3      \* requests a run may create
MaxIcs   == 2      \* Interceptors a run may register
MaxTimes == 2      \* largest argument given to times()
MaxCalls == 2      \* write/end/flushHeaders/abort calls made by user code, in all
MaxLive  == 2      \* requests outstanding at the same time
MaxTasks == 1      \* user callbacks (timers) started after the main script

Req   == 1..NumReq
IcId  == 1..MaxIcs
Paths == {"/", "/x"}
\* arguments of times(): the invalid 0 included
TimesArgs == 0..MaxTimes
\* request body payloads: the empty buffer and a one-byte buffer
Chunks == {<<>>, <<97>>}
\* the number of data chunks a response body is played back in
Bodies == {0, 1}

\* ------------------------------------------------------------------ events
Ev(name, code, message) == [name |-> name, code |-> code, message |-> message]
E(name) == Ev(name, "", "")

\* user listeners: the events a listener script may be attached to, and the
\* calls a script makes on its own request
ListenEv == {"socket", "connect", "finish", "response"}
Scripts  == {<<>>, <<"abort">>, <<"abort", "abort", "abort">>, <<"end">>,
             <<"write">>, <<"flushHeaders">>}
NoListeners == [e \in ListenEv |-> <<>>]
Listeners == {l \in [ListenEv -> Scripts] :
                Cardinality({e \in ListenEv : l[e] # <<>>}) <= 1}
\* the listeners of the events a step can emit
ListenersOn(evs) == {l \in Listeners : \A e \in ListenEv \ evs : l[e] = <<>>}

VARIABLES
  req,                \* per request: the ClientRequest, its Socket and its router
  icp,                \* per Interceptor: its fields
  scopeInterceptors,  \* Scope.interceptors: every Interceptor, registration order
  keyedInterceptors,  \* Scope.keyedInterceptors: key -> pending Interceptors
  allInterceptors,    \* the live list the router searches
  persist,            \* Scope._persist
  allowUnmocked,      \* scopeOptions.allowUnmocked
  allowNetConnect,    \* real connections to hosts without Interceptor are allowed
  tickQ,              \* process.nextTick queue
  macroQ,             \* setImmediate and timer callbacks
  inTask,             \* user code is running synchronously
  calls,              \* user calls made so far
  tasks,              \* user callbacks started so far
  fn,                 \* a call of one of the library's functions and its result
  modules,            \* the request and get functions of http and https
  requestOverrides    \* common.js requestOverrides: proto -> the saved functions

vars == <<req, icp, scopeInterceptors, keyedInterceptors, allInterceptors,
          persist, allowUnmocked, allowNetConnect, tickQ, macroQ, inTask, calls,
          tasks, fn, modules, requestOverrides>>

\* the part of the state the handlers read and write, as one value, with the
\* listener scripts lsn that user code runs on the events of this step
World(lsn) == [lsn |-> lsn, req |-> req, icp |-> icp,
               scopeInterceptors |-> scopeInterceptors,
               keyedInterceptors |-> keyedInterceptors,
               allInterceptors |-> allInterceptors, persist |-> persist,
               allowUnmocked |-> allowUnmocked,
               allowNetConnect |-> allowNetConnect,
               tickQ |-> tickQ, macroQ |-> macroQ]

Commit(w) ==
  /\ req' = w.req
  /\ icp' = w.icp
  /\ scopeInterceptors' = w.scopeInterceptors
  /\ keyedInterceptors' = w.keyedInterceptors
  /\ allInterceptors' = w.allInterceptors
  /\ persist' = w.persist
  /\ allowUnmocked' = w.allowUnmocked
  /\ allowNetConnect' = w.allowNetConnect
  /\ tickQ' = w.tickQ
  /\ macroQ' = w.macroQ
  /\ fn' = fn
  /\ UNCHANGED <<modules, requestOverrides>>

\* ------------------------------------------------------------------ helpers
RECURSIVE Concat(_)
Concat(ss) == IF ss = <<>> THEN <<>> ELSE Head(ss) \o Concat(Tail(ss))

RECURSIVE Without(_, _)
\* arr.splice(arr.indexOf(x), 1) for an x that is in arr: drops its first occurrence
Without(s, x) ==
  IF s = <<>> THEN <<>>
  ELSE IF Head(s) = x THEN Tail(s) ELSE <<Head(s)>> \o Without(Tail(s), x)

InSeq(s, x) == \E k \in 1..Len(s) : s[k] = x

RemoveAt(s, k) == SubSeq(s, 1, k - 1) \o SubSeq(s, k + 1, Len(s))

\* no function of the library has been called
NoCall == [op |-> "", in |-> <<>>, out |-> <<>>, done |-> FALSE]

Task(kind, r, code) == [kind |-> kind, r |-> r, code |-> code]

\* a request before http.request() created it; runs and abortCalls count the
\* entries into startPlayback and handleAbort (their debug() lines), matched and
\* matchedBody keep what startPlayback handed to playback, passed and passedBody
\* what it handed to the real network, cbCalls counts the callbacks called
NoReq == [created |-> FALSE, path |-> "/",
          connecting |-> TRUE, aborted |-> FALSE, destroyed |-> FALSE,
          finished |-> FALSE, socketDestroyed |-> FALSE,
          playbackStarted |-> FALSE, playbackOnSocket |-> FALSE,
          res |-> FALSE, requestBodyBuffers |-> <<>>, events |-> <<>>,
          matched |-> 0, matchedBody |-> <<>>, runs |-> 0,
          passed |-> FALSE, passedBody |-> <<>>, cbCalls |-> 0,
          finishOnce |-> 0, authorized |-> FALSE, toPlay |-> 0,
          abortCalls |-> 0, host |-> "mocked"]

\* declared remembers the argument given to times()
NoIc == [path |-> "/", counter |-> 1, interceptionCounter |-> 0,
         optional |-> FALSE, declared |-> 1, delayed |-> FALSE]

\* ------------------------------------------------------------------ Scope
\* Scope.prototype.intercept: a new Interceptor (repeat count 1, never used) is
\* appended to the Scope's full list; its id is its position in that list
intercept(w, path) ==
  [w EXCEPT !.icp[Len(w.scopeInterceptors) + 1] = [NoIc EXCEPT !.path = path],
            !.scopeInterceptors = Append(@, Len(w.scopeInterceptors) + 1)]

\* Scope.prototype.persist, called with a boolean or with nothing
persistTo(w, flag) == [w EXCEPT !.persist = flag]

\* Interceptor.times(newCounter): an argument below 1 is ignored
times(w, i, newCounter) ==
  IF newCounter < 1 THEN w ELSE [w EXCEPT !.icp[i].counter = newCounter]

\* the registration of an Interceptor in the live list the router searches
globalIntercept(w, i) == [w EXCEPT !.allInterceptors = Append(@, i)]

\* Scope.prototype.add
add(w, key, i) ==
  LET arr == IF key \in DOMAIN w.keyedInterceptors
             THEN w.keyedInterceptors[key] ELSE <<>>
      keyed == [k \in DOMAIN w.keyedInterceptors \cup {key} |->
                  IF k = key THEN Append(arr, i) ELSE w.keyedInterceptors[k]]
  IN globalIntercept([w EXCEPT !.keyedInterceptors = keyed], i)

\* arr.splice(arr.indexOf(i), 1): indexOf is -1 when i is not in arr, and
\* splice(-1, 1) then drops the last element
spliceIndexOf(arr, i) ==
  IF InSeq(arr, i) THEN Without(arr, i) ELSE SubSeq(arr, 1, Len(arr) - 1)

\* remove leaving the Interceptor in the Scope's pending view
removeNothing(w, key, i) == w

\* Scope.prototype.remove
remove(w, key, i) ==
  IF w.persist THEN w
  ELSE IF key \notin DOMAIN w.keyedInterceptors THEN w
  ELSE LET arr == spliceIndexOf(w.keyedInterceptors[key], i)
       IN IF arr = <<>>
          THEN [w EXCEPT !.keyedInterceptors =
                  [k \in DOMAIN w.keyedInterceptors \ {key} |->
                     w.keyedInterceptors[k]]]
          ELSE [w EXCEPT !.keyedInterceptors[key] = arr]

\* pendingMocks without the test of the optional flag
pendingMocksOptionalToo(w) ==
  {key \in DOMAIN w.keyedInterceptors :
     \E k \in 1..Len(w.keyedInterceptors[key]) :
       LET interceptor == w.icp[w.keyedInterceptors[key][k]]
           persistedAndUsed == w.persist /\ interceptor.interceptionCounter > 0
       IN ~persistedAndUsed}

\* Scope.prototype.pendingMocks: the keys that still hold an Interceptor that is
\* not optional and, on a persisted Scope, was never used
pendingMocks(w) ==
  {key \in DOMAIN w.keyedInterceptors :
     \E k \in 1..Len(w.keyedInterceptors[key]) :
       LET interceptor == w.icp[w.keyedInterceptors[key][k]]
           persistedAndUsed == w.persist /\ interceptor.interceptionCounter > 0
       IN ~persistedAndUsed /\ ~interceptor.optional}

\* Scope.prototype.activeMocks
activeMocks(w) == DOMAIN w.keyedInterceptors

\* Interceptor.delayConnection(ms): delayed says that ms > 0
delayConnection(w, i, delayed) == [w EXCEPT !.icp[i].delayed = delayed]

\* Interceptor.optionally(flag)
optionally(w, i, flag) == [w EXCEPT !.icp[i].optional = flag]

\* globalIntercept.removeAll: the pending view of the Scope is emptied, and so
\* is the live list
removeAll(w) ==
  [w EXCEPT !.keyedInterceptors = <<>>, !.allInterceptors = <<>>]

\* cleanAll that empties the pending view and leaves the live list alone
cleanAllViewOnly(w) == [w EXCEPT !.keyedInterceptors = <<>>]

\* cleanAll
cleanAll(w) == removeAll(w)

\* globalIntercept.isOn(): interception is never turned off
isOn == TRUE

\* Scope.prototype.isDone
isDone(w) == IF ~isOn THEN TRUE ELSE pendingMocks(w) = {}

\* globalRemove without the test of the Scope's persist flag
globalRemovePersisted(w, i) ==
  LET w1 == [w EXCEPT !.icp[i].counter = @ - 1]
  IN IF w1.icp[i].counter > 0 THEN w1
     ELSE [w1 EXCEPT !.allInterceptors = Without(@, i)]

\* the removal of a used-up Interceptor from the live list: a persisted Scope
\* keeps it, otherwise the repeat count is decremented and the Interceptor is
\* dropped once none is left
globalRemove(w, i) ==
  IF w.persist THEN w
  ELSE LET w1 == [w EXCEPT !.icp[i].counter = @ - 1]
       IN IF w1.icp[i].counter > 0 THEN w1
          ELSE [w1 EXCEPT !.allInterceptors = Without(@, i)]

\* markConsumed that also takes the exhausted Interceptor out of the Scope's
\* full list
markConsumedFromFullList(w, i) ==
  LET w1 == globalRemove([w EXCEPT !.icp[i].interceptionCounter = @ + 1], i)
  IN IF ~w1.persist /\ w1.icp[i].counter < 1
     THEN [remove(w1, w1.icp[i].path, i)
             EXCEPT !.scopeInterceptors = Without(@, i)]
     ELSE w1

\* Interceptor.markConsumed: count the use, then drop the Interceptor from the
\* live list and from the Scope's pending view when it is exhausted
markConsumed(w, i) ==
  LET w1 == globalRemove([w EXCEPT !.icp[i].interceptionCounter = @ + 1], i)
  IN IF ~w1.persist /\ w1.icp[i].counter < 1
     THEN remove(w1, w1.icp[i].path, i) ELSE w1

\* Interceptor.match, reduced to the path comparison
match(w, i, r) == w.icp[i].path = w.req[r].path

\* find, searching the Scope's full list, which keeps the exhausted Interceptors
findInFullList(w, r) ==
  LET hits == {k \in 1..Len(w.scopeInterceptors) : match(w, w.scopeInterceptors[k], r)}
  IN IF hits = {} THEN 0
     ELSE w.scopeInterceptors[CHOOSE k \in hits : \A j \in hits : k <= j]

\* find, returning the last match of the live list
findLast(w, r) ==
  LET hits == {k \in 1..Len(w.allInterceptors) : match(w, w.allInterceptors[k], r)}
  IN IF hits = {} THEN 0
     ELSE w.allInterceptors[CHOOSE k \in hits : \A j \in hits : j <= k]

\* interceptors.find(i => i.match(...)): the first of the live list that matches,
\* 0 for undefined
find(w, r) ==
  LET hits == {k \in 1..Len(w.allInterceptors) : match(w, w.allInterceptors[k], r)}
  IN IF hits = {} THEN 0
     ELSE w.allInterceptors[CHOOSE k \in hits : \A j \in hits : k <= j]

\* interceptors.some(i => i.matchHostName(options) && i.options.allowUnmocked):
\* every Interceptor of the list has the Scope's host and options
someAllowUnmocked(w) == Len(w.allInterceptors) > 0 /\ w.allowUnmocked

\* req instanceof ClientRequest: requests are created by http.request()
isClientRequest(r) == TRUE

\* ------------------------------------------------------------------ router
\* emitError dropping the error
emitErrorDropped(w, r, code) == w

\* InterceptedRequestRouter.emitError
emitError(w, r, code) == [w EXCEPT !.tickQ = Append(@, Task("error", r, code))]

\* Socket.destroy: once; the 'close' event follows on the next tick
socketDestroy(w, r) ==
  IF w.req[r].socketDestroyed THEN w
  ELSE [w EXCEPT !.req[r].socketDestroyed = TRUE,
                 !.tickQ = Append(@, Task("close", r, ""))]

\* handleWrite without the test of req.finished
handleWriteAfterEnd(w, r, buffer, callback) ==
  IF w.req[r].aborted THEN w
  ELSE IF Len(buffer) = 0 THEN w
  ELSE [w EXCEPT !.req[r].requestBodyBuffers = Append(@, buffer),
                 !.req[r].cbCalls = @ + (IF callback THEN 1 ELSE 0),
                 !.macroQ = Append(@, Task("drain", r, ""))]

\* InterceptedRequestRouter.handleWrite
handleWrite(w, r, buffer, callback) ==
  IF w.req[r].finished THEN emitError(w, r, "ERR_STREAM_WRITE_AFTER_END")
  ELSE IF w.req[r].aborted THEN w
  ELSE IF Len(buffer) = 0 THEN w
  ELSE [w EXCEPT !.req[r].requestBodyBuffers = Append(@, buffer),
                 !.req[r].cbCalls = @ + (IF callback THEN 1 ELSE 0),
                 !.macroQ = Append(@, Task("drain", r, ""))]

\* handleAbort without the test of req.aborted
handleAbortAgain(w0, r) ==
  LET w == [w0 EXCEPT !.req[r].abortCalls = @ + 1]
      w1 == [w EXCEPT !.req[r].aborted = TRUE,
                      !.req[r].destroyed = TRUE,
                      !.tickQ = Append(@, Task("abort", r, ""))]
  IN IF ~w1.req[r].connecting
     THEN socketDestroy(IF ~w1.req[r].res
                        THEN emitError(w1, r, "ECONNRESET") ELSE w1, r)
     ELSE w1

\* handleAbort without the test of socket.connecting
handleAbortAlwaysReset(w0, r) ==
  LET w == [w0 EXCEPT !.req[r].abortCalls = @ + 1] IN
  IF w.req[r].aborted THEN w
  ELSE LET w1 == [w EXCEPT !.req[r].aborted = TRUE,
                           !.req[r].destroyed = TRUE,
                           !.tickQ = Append(@, Task("abort", r, ""))]
       IN socketDestroy(IF ~w1.req[r].res
                        THEN emitError(w1, r, "ECONNRESET") ELSE w1, r)

\* handleAbort destroying the socket before it raises the error
handleAbortDestroyFirst(w0, r) ==
  LET w == [w0 EXCEPT !.req[r].abortCalls = @ + 1] IN
  IF w.req[r].aborted THEN w
  ELSE LET w1 == [w EXCEPT !.req[r].aborted = TRUE,
                           !.req[r].destroyed = TRUE,
                           !.tickQ = Append(@, Task("abort", r, ""))]
           w2 == socketDestroy(w1, r)
       IN IF ~w1.req[r].connecting
          THEN (IF ~w1.req[r].res THEN emitError(w2, r, "ECONNRESET") ELSE w2)
          ELSE w1

\* handleAbort without the test of req.res
handleAbortResetWithResponse(w0, r) ==
  LET w == [w0 EXCEPT !.req[r].abortCalls = @ + 1] IN
  IF w.req[r].aborted THEN w
  ELSE LET w1 == [w EXCEPT !.req[r].aborted = TRUE,
                           !.req[r].destroyed = TRUE,
                           !.tickQ = Append(@, Task("abort", r, ""))]
       IN IF ~w1.req[r].connecting
          THEN socketDestroy(emitError(w1, r, "ECONNRESET"), r)
          ELSE w1

\* InterceptedRequestRouter.handleAbort
handleAbort(w0, r) ==
  LET w == [w0 EXCEPT !.req[r].abortCalls = @ + 1] IN
  IF w.req[r].aborted THEN w
  ELSE LET w1 == [w EXCEPT !.req[r].aborted = TRUE,
                           !.req[r].destroyed = TRUE,
                           !.tickQ = Append(@, Task("abort", r, ""))]
       IN IF ~w1.req[r].connecting
          THEN socketDestroy(IF ~w1.req[r].res
                             THEN emitError(w1, r, "ECONNRESET") ELSE w1, r)
          ELSE w1

\* playbackInterceptor: playback starts on a later turn of the event loop
playbackInterceptor(w, r, i) ==
  [w EXCEPT !.macroQ = Append(@, Task("start", r, ""))]

RECURSIVE emit(_, _, _), runScript(_, _, _), call(_, _, _), handleEnd(_, _, _, _),
          handleFlushHeaders(_, _), maybeStartPlayback(_, _), startPlayback(_, _)

\* req.emit(event): the event is observed, the callbacks given to end() run on
\* 'finish', then the listener script the user attached to the event
emit(w, r, ev) ==
  LET w1 == [w EXCEPT !.req[r].events = Append(@, ev)]
      w2 == IF ev.name = "finish"
            THEN [w1 EXCEPT !.req[r].cbCalls = @ + w1.req[r].finishOnce,
                            !.req[r].finishOnce = 0]
            ELSE w1
  IN IF ev.name \in ListenEv THEN runScript(w2, r, w2.lsn[ev.name]) ELSE w2

runScript(w, r, ops) ==
  IF ops = <<>> THEN w ELSE runScript(call(w, r, Head(ops)), r, Tail(ops))

\* one call of user code on the request; a listener writes one byte and ends
\* without a chunk
call(w, r, op) ==
  CASE op = "abort" -> handleAbort(w, r)
    [] op = "end" -> handleEnd(w, r, <<>>, FALSE)
    [] op = "write" -> handleWrite(w, r, <<97>>, FALSE)
    [] op = "flushHeaders" -> handleFlushHeaders(w, r)

\* InterceptedRequestRouter.handleEnd
handleEnd(w, r, chunk, callback) ==
  LET w1 == IF callback THEN [w EXCEPT !.req[r].finishOnce = @ + 1] ELSE w
      w2 == handleWrite(w1, r, chunk, FALSE)
      w3 == [w2 EXCEPT !.req[r].finished = TRUE]
  IN maybeStartPlayback(w3, r)

\* InterceptedRequestRouter.handleFlushHeaders
handleFlushHeaders(w, r) == maybeStartPlayback(w, r)

\* maybeStartPlayback without the test of playbackStarted
maybeStartPlaybackAgain(w, r) ==
  IF w.req[r].connecting THEN [w EXCEPT !.req[r].playbackOnSocket = TRUE]
  ELSE IF ~w.req[r].aborted THEN startPlayback(w, r)
  ELSE w

\* InterceptedRequestRouter.maybeStartPlayback
maybeStartPlayback(w, r) ==
  IF w.req[r].connecting THEN [w EXCEPT !.req[r].playbackOnSocket = TRUE]
  ELSE IF ~w.req[r].aborted /\ ~w.req[r].playbackStarted THEN startPlayback(w, r)
  ELSE w

\* startPlayback handing the request to playback without emitting 'finish'
startPlaybackNoFinish(w, r) ==
  LET requestBodyBuffer == Concat(w.req[r].requestBodyBuffers)
      w1 == [w EXCEPT !.req[r].playbackStarted = TRUE,
                      !.req[r].runs = @ + 1,
                      !.req[r].matchedBody = requestBodyBuffer]
      matchedInterceptor == find(w1, r)
  IN IF matchedInterceptor # 0
     THEN playbackInterceptor([w1 EXCEPT !.req[r].matched = matchedInterceptor],
                              r, matchedInterceptor)
     ELSE IF someAllowUnmocked(w1) /\ isClientRequest(r)
     THEN [w1 EXCEPT !.req[r].passed = TRUE, !.req[r].passedBody = requestBodyBuffer]
     ELSE emitError(w1, r, "NOMATCH")

\* startPlayback consuming the Interceptor as soon as it is matched
startPlaybackConsumes(w, r) ==
  LET requestBodyBuffer == Concat(w.req[r].requestBodyBuffers)
      w1 == [w EXCEPT !.req[r].playbackStarted = TRUE,
                      !.req[r].runs = @ + 1,
                      !.req[r].matchedBody = requestBodyBuffer]
      matchedInterceptor == find(w1, r)
  IN IF matchedInterceptor # 0
     THEN playbackInterceptor(
            emit(markConsumed([w1 EXCEPT !.req[r].matched = matchedInterceptor],
                              matchedInterceptor),
                 r, E("finish")),
            r, matchedInterceptor)
     ELSE IF someAllowUnmocked(w1) /\ isClientRequest(r)
     THEN [w1 EXCEPT !.req[r].passed = TRUE, !.req[r].passedBody = requestBodyBuffer]
     ELSE emitError(w1, r, "NOMATCH")

\* InterceptedRequestRouter.startPlayback
startPlayback(w, r) ==
  LET requestBodyBuffer == Concat(w.req[r].requestBodyBuffers)
      w1 == [w EXCEPT !.req[r].playbackStarted = TRUE,
                      !.req[r].runs = @ + 1,
                      !.req[r].matchedBody = requestBodyBuffer]
      matchedInterceptor == find(w1, r)
  IN IF matchedInterceptor # 0
     THEN playbackInterceptor(
            emit([w1 EXCEPT !.req[r].matched = matchedInterceptor], r, E("finish")),
            r, matchedInterceptor)
     ELSE IF someAllowUnmocked(w1) /\ isClientRequest(r)
     THEN [w1 EXCEPT !.req[r].passed = TRUE, !.req[r].passedBody = requestBodyBuffer]
     ELSE emitError(w1, r, "NOMATCH")

\* ------------------------------------------------------------------ callbacks
\* socketTick without the test of req.aborted
socketTickNoCheck(w, r) ==
  LET w1 == emit([w EXCEPT !.req[r].connecting = FALSE], r, E("socket"))
      w2 == emit(w1, r, E("connect"))
      w3 == IF w2.req[r].authorized THEN emit(w2, r, E("secureConnect")) ELSE w2
  IN IF w3.req[r].playbackOnSocket THEN maybeStartPlayback(w3, r) ELSE w3

\* the process.nextTick callback of attachToReq: the 'socket' event
socketTickPlaybackFirst(w, r) ==
  IF w.req[r].aborted THEN w
  ELSE LET w0 == [w EXCEPT !.req[r].connecting = FALSE]
           w1 == IF w0.req[r].playbackOnSocket THEN maybeStartPlayback(w0, r) ELSE w0
           w2 == emit(w1, r, E("socket"))
           w3 == emit(w2, r, E("connect"))
       IN IF w3.req[r].authorized THEN emit(w3, r, E("secureConnect")) ELSE w3

socketTick(w, r) ==
  IF w.req[r].aborted THEN w
  ELSE LET w1 == emit([w EXCEPT !.req[r].connecting = FALSE], r, E("socket"))
           w2 == emit(w1, r, E("connect"))
           w3 == IF w2.req[r].authorized THEN emit(w2, r, E("secureConnect")) ELSE w2
       IN IF w3.req[r].playbackOnSocket THEN maybeStartPlayback(w3, r) ELSE w3

\* the process.nextTick callback of emitError
errorTick(w, r, code) ==
  emit(w, r, Ev("error", code,
                CASE code = "ECONNRESET" -> "socket hang up"
                  [] code = "ERR_STREAM_WRITE_AFTER_END" -> "write after end"
                  [] code = "NETCONNECT" -> "Nock: Disallowed net connect"
                  [] OTHER -> "Nock: No match for request"))

\* playback, first turn: nothing happens for an aborted request; otherwise the
\* response is due once the connection delay has passed
start(w, r) ==
  IF w.req[r].aborted THEN w
  ELSE [w EXCEPT !.macroQ =
          Append(@, Task("respond", r,
                         IF w.icp[w.req[r].matched].delayed THEN "timer" ELSE ""))]

\* respond without the test of req.aborted
respondAfterAbort(w, r, chunks) ==
  LET w1 == markConsumed(w, w.req[r].matched)
      w2 == emit([w1 EXCEPT !.req[r].res = TRUE, !.req[r].toPlay = chunks],
                 r, E("response"))
  IN [w2 EXCEPT !.macroQ = Append(@, Task("body", r, ""))]

\* playback, the response: the Interceptor is consumed just before 'response';
\* the body is due once the body delay has passed
respond(w, r, chunks) ==
  IF w.req[r].aborted THEN w
  ELSE LET w1 == markConsumed(w, w.req[r].matched)
           w2 == emit([w1 EXCEPT !.req[r].res = TRUE,
                                 !.req[r].toPlay = chunks],
                      r, E("response"))
       IN [w2 EXCEPT !.macroQ = Append(@, Task("body", r, ""))]

\* body, with the end of the body emitted before its chunks
bodyEndFirst(w, r) ==
  IF w.req[r].aborted THEN w
  ELSE IF w.req[r].toPlay > 0
  THEN LET w1 == emit([w EXCEPT !.req[r].toPlay = @ - 1], r, E("end"))
       IN [w1 EXCEPT !.macroQ = Append(@, Task("body", r, ""))]
  ELSE socketDestroy(emit(w, r, E("data")), r)

\* playback, the body: one data chunk a turn, then the end of the body and the
\* close of the connection; an abort cancels what is left
body(w, r) ==
  IF w.req[r].aborted THEN w
  ELSE IF w.req[r].toPlay > 0
  THEN LET w1 == emit([w EXCEPT !.req[r].toPlay = @ - 1], r, E("data"))
       IN [w1 EXCEPT !.macroQ = Append(@, Task("body", r, ""))]
  ELSE socketDestroy(emit(w, r, E("end")), r)

runTask(w, t, chunks) ==
  CASE t.kind = "socket" -> socketTick(w, t.r)
    [] t.kind = "abort" -> emit(w, t.r, E("abort"))
    [] t.kind = "error" -> errorTick(w, t.r, t.code)
    [] t.kind = "close" -> emit(w, t.r, E("close"))
    [] t.kind = "drain" -> emit(w, t.r, E("drain"))
    [] t.kind = "start" -> start(w, t.r)
    [] t.kind = "respond" -> respond(w, t.r, chunks)
    [] t.kind = "body" -> body(w, t.r)

\* the InterceptedRequestRouter constructor and attachToReq
attachToReq(w, r, path, authorized) ==
  [w EXCEPT !.req[r] = [NoReq EXCEPT !.created = TRUE, !.path = path,
                                     !.authorized = authorized],
            !.tickQ = Append(@, Task("socket", r, ""))]

\* nock.disableNetConnect() and nock.enableNetConnect()
disableNetConnect(w) == [w EXCEPT !.allowNetConnect = FALSE]
enableNetConnect(w) == [w EXCEPT !.allowNetConnect = TRUE]
isEnabledForNetConnect(w) == w.allowNetConnect

\* http.request to a host without Interceptor, handed to the real http.request
\* whatever the net connect setting
requestOtherHostUnchecked(w, r, path) ==
  [w EXCEPT !.req[r] = [NoReq EXCEPT !.created = TRUE, !.path = path,
                                     !.host = "other", !.passed = TRUE]]

\* http.request to a host for which no Interceptor is registered: no router is
\* made; the request is the real one when net connect is enabled, and otherwise
\* a request that emits the net connect error on the next tick
requestOtherHost(w, r, path) ==
  IF isEnabledForNetConnect(w)
  THEN [w EXCEPT !.req[r] = [NoReq EXCEPT !.created = TRUE, !.path = path,
                                          !.host = "other", !.passed = TRUE]]
  ELSE [w EXCEPT !.req[r] = [NoReq EXCEPT !.created = TRUE, !.path = path,
                                          !.host = "other"],
                 !.tickQ = Append(@, Task("error", r, "NETCONNECT"))]

\* ------------------------------------------------------------------ actions
\* the request and get functions of the http and https modules: a function is
\* known by its name, its module and the newRequest handler it forwards to,
\* none for the functions of Node
Function(proto, name, newRequest, legacy) ==
  [proto |-> proto, name |-> name, newRequest |-> newRequest, legacy |-> legacy]
Native ==
  [proto \in {"http", "https"} |->
     [request |-> Function(proto, "request", 0, FALSE),
      get |-> Function(proto, "get", 0, FALSE)]]

Init ==
  /\ req = [r \in Req |-> NoReq]
  /\ icp = [i \in IcId |-> NoIc]
  /\ scopeInterceptors = <<>>
  /\ keyedInterceptors = <<>>
  /\ allInterceptors = <<>>
  /\ persist = FALSE
  /\ allowUnmocked \in BOOLEAN
  /\ allowNetConnect = TRUE
  /\ tickQ = <<>>
  /\ macroQ = <<>>
  /\ inTask = TRUE
  /\ calls = 0
  /\ tasks = 0
  /\ fn = NoCall
  /\ modules = Native
  /\ requestOverrides = <<>>

\* scope.get(path).times(n).reply(...), before the first request is made
RegisterOf(max) ==
  /\ inTask
  /\ Len(scopeInterceptors) < max
  /\ \A r \in Req : ~req[r].created
  /\ \E path \in Paths, n \in TimesArgs :
       LET i == Len(scopeInterceptors) + 1
       IN Commit(add(times([intercept(World(NoListeners), path)
                                EXCEPT !.icp[i].declared = n], i, n), path, i))
  /\ UNCHANGED <<inTask, calls, tasks>>

\* scope.persist(), before the first request is made
Persist ==
  /\ inTask
  /\ \A r \in Req : ~req[r].created
  /\ ~persist
  /\ Commit(persistTo(World(NoListeners), TRUE))
  /\ UNCHANGED <<inTask, calls, tasks>>

\* http.request(): requests are numbered in the order of their creation
CreateOf(ready, paths, authorizedSet) ==
  /\ inTask
  /\ ready
  /\ \E r \in Req, path \in paths, authorized \in authorizedSet :
       /\ ~req[r].created
       /\ \A q \in Req : q < r => req[q].created
       /\ Commit(attachToReq(World(NoListeners), r, path, authorized))
  /\ UNCHANGED <<inTask, calls, tasks>>

\* user code passes a callback to write() and to end(); a listener script does not
UserWrite ==
  /\ inTask /\ calls < MaxCalls
  /\ \E r \in Req, chunk \in Chunks, callback \in {TRUE} :
       /\ req[r].created
       /\ Commit(handleWrite(World(NoListeners), r, chunk, callback))
  /\ calls' = calls + 1
  /\ UNCHANGED <<inTask, tasks>>

UserEndOf(LS, chunks, callbacks) ==
  /\ inTask /\ calls < MaxCalls
  /\ \E r \in Req, chunk \in chunks, callback \in callbacks, lsn \in LS :
       /\ req[r].created
       /\ Commit(handleEnd(World(lsn), r, chunk, callback))
  /\ calls' = calls + 1
  /\ UNCHANGED <<inTask, tasks>>

UserFlushHeaders ==
  /\ inTask /\ calls < MaxCalls
  /\ \E r \in Req, lsn \in ListenersOn({"finish"}) :
       /\ req[r].created
       /\ Commit(handleFlushHeaders(World(lsn), r))
  /\ calls' = calls + 1
  /\ UNCHANGED <<inTask, tasks>>

UserAbort ==
  /\ inTask /\ calls < MaxCalls
  /\ \E r \in Req :
       /\ req[r].created
       /\ Commit(handleAbort(World(NoListeners), r))
  /\ calls' = calls + 1
  /\ UNCHANGED <<inTask, tasks>>

\* the running user code returns to the event loop
EndTask ==
  /\ inTask
  /\ inTask' = FALSE
  /\ UNCHANGED <<req, icp, scopeInterceptors, keyedInterceptors, allInterceptors,
                 persist, allowUnmocked, allowNetConnect, tickQ, macroQ,
                 calls, tasks, fn, modules, requestOverrides>>

\* a timer of the user fires: only with the nextTick queue drained
NewTask ==
  /\ ~inTask /\ tickQ = <<>> /\ tasks < MaxTasks
  /\ inTask' = TRUE
  /\ tasks' = tasks + 1
  /\ UNCHANGED <<req, icp, scopeInterceptors, keyedInterceptors, allInterceptors,
                 persist, allowUnmocked, allowNetConnect, tickQ, macroQ,
                 calls, fn, modules, requestOverrides>>

\* the event loop runs the oldest process.nextTick callback
RunTickOf(LS) ==
  /\ ~inTask /\ tickQ # <<>>
  /\ \E lsn \in IF Head(tickQ).kind = "socket" THEN LS ELSE {NoListeners} :
       Commit(runTask([World(lsn) EXCEPT !.tickQ = Tail(@)], Head(tickQ), 0))
  /\ UNCHANGED <<inTask, calls, tasks>>

\* the event loop runs a setImmediate or timer callback: the callbacks of one
\* request in the order they were scheduled, those of different requests in any;
\* the response body arrives in any number of chunks
RunMacroOf(LS, bodies) ==
  /\ ~inTask /\ tickQ = <<>>
  /\ \E k \in 1..Len(macroQ) :
     \E lsn \in IF macroQ[k].kind = "respond" THEN LS ELSE {NoListeners},
        chunks \in IF macroQ[k].kind = "respond" THEN bodies ELSE {0} :
       /\ \A j \in 1..(k - 1) : macroQ[j].r # macroQ[k].r
       /\ Commit(runTask([World(lsn) EXCEPT !.macroQ = RemoveAt(@, k)],
                         macroQ[k], chunks))
  /\ UNCHANGED <<inTask, calls, tasks>>

\* ------------------------------------------------------------------ one request
\* one request, with every call and every listener script
Register == RegisterOf(Cardinality({"/"}))
Create == CreateOf(\A r \in Req : ~req[r].created, {"/"}, BOOLEAN)
UserEnd == UserEndOf(ListenersOn({"finish"}), Chunks, {TRUE})
RunTick == RunTickOf(ListenersOn({"socket", "connect", "finish"}))
RunMacro == RunMacroOf(ListenersOn({"response"}), Bodies)

Next ==
  \/ Register
  \/ Create
  \/ UserWrite
  \/ UserEnd
  \/ UserFlushHeaders
  \/ UserAbort
  \/ EndTask
  \/ NewTask
  \/ RunTick
  \/ RunMacro

Spec == Init /\ [][Next]_vars

\* ------------------------------------------------------------------ many requests
\* a request is settled: it was matched or refused and none of its callbacks is
\* waiting in a queue
Queued(r) ==
  \/ \E k \in 1..Len(tickQ) : tickQ[k].r = r
  \/ \E k \in 1..Len(macroQ) : macroQ[k].r = r
Settled(r) == req[r].runs > 0 /\ ~Queued(r)

\* plain requests: http or https, ended once without a body, no listener script
RegisterAll == RegisterOf(MaxIcs)
EndOnce ==
  /\ inTask
  /\ \E r \in Req :
       /\ req[r].created /\ ~req[r].finished /\ req[r].host = "mocked"
       /\ Commit(handleEnd(World(NoListeners), r, <<>>, FALSE))
  /\ UNCHANGED <<inTask, calls, tasks>>
NextTask ==
  /\ ~inTask /\ tickQ = <<>>
  /\ inTask' = TRUE
  /\ UNCHANGED <<req, icp, scopeInterceptors, keyedInterceptors, allInterceptors,
                 persist, allowUnmocked, allowNetConnect, tickQ, macroQ,
                 calls, tasks, fn, modules, requestOverrides>>
PlainTick == RunTickOf({NoListeners})
PlainMacro == RunMacroOf({NoListeners}, {0})

\* requests made one after another: each is settled before the next is created
CreateSeq == CreateOf(\A q \in Req : req[q].created => Settled(q), Paths, {FALSE})

NextSeq ==
  \/ RegisterAll
  \/ Persist
  \/ CreateSeq
  \/ EndOnce
  \/ EndTask
  \/ NextTask
  \/ PlainTick
  \/ PlainMacro

SpecSeq == Init /\ [][NextSeq]_vars

\* the Scope's bookkeeping: Interceptors that may be optional, a Scope that may
\* be persisted, requests made one after another, and nock.cleanAll() at any
\* point of user code
RegisterOptional ==
  /\ inTask
  /\ Len(scopeInterceptors) < MaxIcs
  /\ \A r \in Req : ~req[r].created
  /\ \E path \in Paths, n \in TimesArgs, flag \in BOOLEAN :
       LET i == Len(scopeInterceptors) + 1
       IN Commit(add(optionally(times([intercept(World(NoListeners), path)
                                           EXCEPT !.icp[i].declared = n], i, n),
                                i, flag),
                     path, i))
  /\ UNCHANGED <<inTask, calls, tasks>>

CleanAll ==
  /\ inTask
  /\ Commit(cleanAll(World(NoListeners)))
  /\ UNCHANGED <<inTask, calls, tasks>>

NextScope ==
  \/ RegisterOptional
  \/ Persist
  \/ CleanAll
  \/ CreateSeq
  \/ EndOnce
  \/ EndTask
  \/ NextTask
  \/ PlainTick
  \/ PlainMacro

SpecScope == Init /\ [][NextScope]_vars

\* the net connect setting: requests made one after another to the Scope's host
\* and to a host without Interceptor, with net connect disabled or enabled
\* before the first request
DisableNetConnect ==
  /\ inTask
  /\ \A r \in Req : ~req[r].created
  /\ allowNetConnect
  /\ Commit(disableNetConnect(World(NoListeners)))
  /\ UNCHANGED <<inTask, calls, tasks>>

EnableNetConnect ==
  /\ inTask
  /\ \A r \in Req : ~req[r].created
  /\ ~allowNetConnect
  /\ Commit(enableNetConnect(World(NoListeners)))
  /\ UNCHANGED <<inTask, calls, tasks>>

SettledNet(r) == ~Queued(r) /\ (req[r].runs > 0 \/ req[r].host = "other")

CreateNet == CreateOf(\A q \in Req : req[q].created => SettledNet(q), Paths, {FALSE})

CreateOther ==
  /\ inTask
  /\ \A q \in Req : req[q].created => SettledNet(q)
  /\ \E r \in Req, path \in Paths :
       /\ ~req[r].created
       /\ \A q \in Req : q < r => req[q].created
       /\ Commit(requestOtherHost(World(NoListeners), r, path))
  /\ UNCHANGED <<inTask, calls, tasks>>

NextNet ==
  \/ RegisterAll
  \/ DisableNetConnect
  \/ EnableNetConnect
  \/ CreateNet
  \/ CreateOther
  \/ EndOnce
  \/ EndTask
  \/ NextTask
  \/ PlainTick
  \/ PlainMacro

SpecNet == Init /\ [][NextNet]_vars

\* the connection delay: requests made one after another against Interceptors
\* declared with or without delayConnection
RegisterDelayed ==
  /\ inTask
  /\ Len(scopeInterceptors) < MaxIcs
  /\ \A r \in Req : ~req[r].created
  /\ \E path \in Paths, n \in {MaxTimes}, delayed \in BOOLEAN :
       LET i == Len(scopeInterceptors) + 1
       IN Commit(add(delayConnection(times([intercept(World(NoListeners), path)
                                                EXCEPT !.icp[i].declared = n], i, n),
                                     i, delayed),
                     path, i))
  /\ UNCHANGED <<inTask, calls, tasks>>

CreateSecure ==
  CreateOf(\A q \in Req : req[q].created => Settled(q), Paths, BOOLEAN)

NextDelay ==
  \/ RegisterDelayed
  \/ CreateSecure
  \/ EndOnce
  \/ EndTask
  \/ NextTask
  \/ PlainTick
  \/ PlainMacro

SpecDelay == Init /\ [][NextDelay]_vars

\* requests outstanding at the same time
CreateConc ==
  CreateOf(Cardinality({q \in Req : req[q].created /\ ~Settled(q)}) < MaxLive,
           Paths, {FALSE})

NextConc ==
  \/ RegisterAll
  \/ Persist
  \/ CreateConc
  \/ EndOnce
  \/ EndTask
  \/ NextTask
  \/ PlainTick
  \/ PlainMacro

SpecConc == Init /\ [][NextConc]_vars

\* ------------------------------------------------------------------ progress
\* one request on either path, every user call, and a 'socket' listener that
\* may end the request; the event loop runs every queued callback, and the
\* running user code returns to it
CreateLive == CreateOf(\A r \in Req : ~req[r].created, Paths, {FALSE})
\* one request whose only listener is one on 'socket': every call a
\* next-tick callback makes on the request comes from that listener, before
\* the callback emits 'connect'
TickSock == RunTickOf(ListenersOn({"socket"}))

NextSock ==
  \/ Register
  \/ Create
  \/ UserWrite
  \/ UserEnd
  \/ UserFlushHeaders
  \/ UserAbort
  \/ EndTask
  \/ NewTask
  \/ TickSock
  \/ PlainMacro

SpecSock == Init /\ [][NextSock]_vars

LiveListeners ==
  {l \in ListenersOn({"socket"}) : l["socket"] \in {<<>>, <<"end">>}}
TickLive == RunTickOf(LiveListeners)

NextLive ==
  \/ Register
  \/ CreateLive
  \/ UserWrite
  \/ UserEnd
  \/ UserFlushHeaders
  \/ UserAbort
  \/ EndTask
  \/ NewTask
  \/ TickLive
  \/ PlainMacro

SpecLive ==
  /\ Init /\ [][NextLive]_vars
  /\ WF_vars(TickLive) /\ WF_vars(PlainMacro) /\ WF_vars(EndTask)

\* ------------------------------------------------------------------ observations
Idx(r, name) == {k \in 1..Len(req[r].events) : req[r].events[k].name = name}
ErrIdx(r, code) ==
  {k \in Idx(r, "error") : req[r].events[k].code = code}
Has(r, name) == Idx(r, name) # {}
HasErr(r, code) == ErrIdx(r, code) # {}
First(S) == CHOOSE k \in S : \A j \in S : k <= j
Last(S) == CHOOSE k \in S : \A j \in S : j <= k
\* every index of S lies before every index of T
Before(S, T) == \A k \in S, j \in T : k < j

\* the number of uses a repeat count n allows
Effective(n) == IF n >= 1 THEN n ELSE 1
\* the responses an Interceptor has given
Served(i) == {r \in Req : req[r].matched = i /\ Has(r, "response")}

\* C1: on a Scope that is not persisted and holds one Interceptor declared with
\* times(N), of the matching requests made one after another the first E get the
\* response and every later one gets the no-match error, E = N for N >= 1 and 1
\* otherwise
C1_RepeatCount ==
  (Len(scopeInterceptors) = 1 /\ ~persist) =>
    \A r \in Req :
      (req[r].created /\ Settled(r) /\ req[r].path = icp[1].path) =>
        LET k == Cardinality({q \in 1..r : req[q].path = icp[1].path})
        IN IF k <= Effective(icp[1].declared)
           THEN Has(r, "response") /\ ~HasErr(r, "NOMATCH") /\ req[r].matched = 1
           ELSE HasErr(r, "NOMATCH") /\ ~Has(r, "response") /\ ~req[r].passed

C1_Witness ==
  /\ Len(scopeInterceptors) = 1 /\ ~persist /\ icp[1].declared = MaxTimes
  /\ \A r \in Req : req[r].path = icp[1].path /\ Settled(r)
  /\ Cardinality({r \in Req : Has(r, "response")}) = MaxTimes
  /\ HasErr(NumReq, "NOMATCH")

\* C2: the Interceptor startPlayback selects for a request is the first in
\* registration order that matches the request and is not exhausted
NotExhausted(i) ==
  persist \/ icp[i].interceptionCounter < Effective(icp[i].declared)
Candidates(r) ==
  {i \in 1..Len(scopeInterceptors) : icp[i].path = req[r].path /\ NotExhausted(i)}
C2_FirstRegistered ==
  [][\A r \in Req :
       (req[r].created /\ req[r].runs = 0 /\ req'[r].runs = 1) =>
         IF Candidates(r) = {} THEN req'[r].matched = 0
         ELSE req'[r].matched = First(Candidates(r))]_vars

C2_Witness ==
  /\ Len(scopeInterceptors) = MaxIcs
  /\ \A i \in IcId : icp[i].path = "/"
  /\ req[1].matched = 1 /\ Has(1, "response")
  /\ req[2].matched = 2 /\ Has(2, "response")

\* C3: whatever calls are made on a request, from user code or from its
\* listeners, startPlayback runs at most once for it: one Interceptor at most is
\* selected and consumed, and 'finish' and 'response' are emitted at most once
Uses == LET RECURSIVE Sum(_)
            Sum(n) == IF n = 0 THEN 0 ELSE icp[n].interceptionCounter + Sum(n - 1)
        IN Sum(MaxIcs)
C3_MatchOnce ==
  /\ \A r \in Req :
       /\ req[r].runs <= 1
       /\ Cardinality(Idx(r, "finish")) <= 1
       /\ Cardinality(Idx(r, "response")) <= 1
       /\ Has(r, "finish") => req[r].runs = 1 /\ req[r].matched # 0
  /\ Uses <= Cardinality({r \in Req : Has(r, "response")})

\* the request was ended, ended or written again and aborted, and was matched once
C3_Witness ==
  \E r \in Req :
    /\ req[r].runs = 1 /\ Has(r, "finish") /\ Has(r, "response")
    /\ HasErr(r, "ERR_STREAM_WRITE_AFTER_END")
    /\ req[r].aborted

\* C5: a request that has emitted 'response' has emitted 'finish' before it
C5_FinishBeforeResponse ==
  \A r \in Req :
    Has(r, "response") =>
      Has(r, "finish") /\ Before(Idx(r, "finish"), Idx(r, "response"))

C5_Witness ==
  \E r \in Req : Has(r, "response") /\ Has(r, "data") /\ ~req[r].aborted

\* C6: the events of a playback come in the order response, data chunks, end,
\* close: no data before 'response' or after 'end', one 'end' at most, after
\* 'response' and before 'close', and no 'close' without 'end' unless the request
\* was aborted
C6_PlaybackOrder ==
  \A r \in Req :
    /\ Has(r, "data") \/ Has(r, "end") => Has(r, "response")
    /\ Before(Idx(r, "response"), Idx(r, "data") \cup Idx(r, "end"))
    /\ Before(Idx(r, "data"), Idx(r, "end"))
    /\ Cardinality(Idx(r, "end")) <= 1
    /\ Before(Idx(r, "end"), Idx(r, "close"))
    /\ (Has(r, "response") /\ Has(r, "close") /\ ~req[r].aborted) => Has(r, "end")

PlaybackEvents(r) ==
  SelectSeq(req[r].events,
            LAMBDA e : e.name \in {"response", "data", "end", "close"})
C6_Witness ==
  \E r \in Req :
    /\ ~req[r].aborted
    /\ PlaybackEvents(r) = <<E("response"), E("data"), E("end"), E("close")>>

\* C8: an aborted request emits one 'abort' event, whatever the number of
\* abort() calls: it is emitted or still queued, and a further abort() changes
\* no field of the request and queues nothing
QueuedAborts(r) == {k \in 1..Len(tickQ) : tickQ[k] = Task("abort", r, "")}
C8_AbortOnce ==
  \A r \in Req :
    /\ Cardinality(Idx(r, "abort")) + Cardinality(QueuedAborts(r))
         = IF req[r].aborted THEN 1 ELSE 0
    /\ req[r].aborted =>
         [handleAbort(World(NoListeners), r)
            EXCEPT !.req[r].abortCalls = req[r].abortCalls] = World(NoListeners)

C8_Witness ==
  \E r \in Req :
    /\ req[r].abortCalls >= 3 /\ ~Queued(r)
    /\ Cardinality(Idx(r, "abort")) = 1

\* C9, as stated: a request aborted before any response has, once its callbacks
\* have run, emitted one 'abort' and one ECONNRESET error after it
C9_Original ==
  \A r \in Req :
    (req[r].aborted /\ ~req[r].res /\ ~Queued(r)) =>
      /\ Cardinality(Idx(r, "abort")) = 1
      /\ Cardinality(ErrIdx(r, "ECONNRESET")) = 1
      /\ Before(Idx(r, "abort"), ErrIdx(r, "ECONNRESET"))

\* C9, amended: the ECONNRESET error follows the 'abort' event when the 'socket'
\* event had fired before the abort; a request aborted before its 'socket' event
\* emits 'abort' alone
C9_AbortBeforeResponse ==
  \A r \in Req :
    (req[r].aborted /\ ~req[r].res /\ ~Queued(r)) =>
      /\ Cardinality(Idx(r, "abort")) = 1
      /\ IF Has(r, "socket")
         THEN /\ Cardinality(ErrIdx(r, "ECONNRESET")) = 1
              /\ Before(Idx(r, "abort"), ErrIdx(r, "ECONNRESET"))
         ELSE ~HasErr(r, "ECONNRESET")

C9_Witness ==
  \E r \in Req :
    /\ req[r].abortCalls = 3 /\ ~req[r].res /\ ~Queued(r)
    /\ Has(r, "socket") /\ Cardinality(ErrIdx(r, "ECONNRESET")) = 1

\* C10: a request aborted after its 'socket' event and before any response emits
\* 'abort', then the ECONNRESET error 'socket hang up', then 'close', each once
\* and in that order, and never 'response'
AbortEvents(r) ==
  SelectSeq(req[r].events,
            LAMBDA e : e.name \in {"abort", "close"}
                       \/ (e.name = "error" /\ e.code = "ECONNRESET"))
AbortSequence ==
  <<E("abort"), Ev("error", "ECONNRESET", "socket hang up"), E("close")>>
C10_AbortAfterSocket ==
  \A r \in Req :
    (req[r].aborted /\ ~req[r].res /\ Has(r, "socket")) =>
      /\ ~Has(r, "response")
      /\ Len(AbortEvents(r)) <= 3
      /\ AbortEvents(r) = SubSeq(AbortSequence, 1, Len(AbortEvents(r)))
      /\ ~Queued(r) => AbortEvents(r) = AbortSequence

\* the abort made in a 'finish' listener
C10_Witness ==
  \E r \in Req :
    req[r].events = <<E("socket"), E("connect"), E("finish")>> \o AbortSequence

\* C4, as stated: of the requests outstanding at the same time, an Interceptor
\* with repeat count N answers N at most
C4_AtMostN ==
  \A i \in 1..Len(scopeInterceptors) :
    ~persist => Cardinality(Served(i)) <= Effective(icp[i].declared)

\* C7: an ended request that is not aborted comes to one outcome: 'response',
\* the hand-off to the real network, or the no-match error, which is emitted as
\* an 'error' event by a later callback and not inside the call that matched.
\* finished, aborted and the outcomes never revert, so "every ended request
\* eventually has an outcome" is "from some point on, every ended request has one"
Outcomes(r) ==
  {o \in {"response", "passed", "nomatch"} :
     \/ o = "response" /\ Has(r, "response")
     \/ o = "passed" /\ req[r].passed
     \/ o = "nomatch" /\ HasErr(r, "NOMATCH")}
Closed(r) == req[r].aborted \/ Outcomes(r) # {}
Decided(r) == req[r].finished => Closed(r)
C7_Outcome ==
  /\ <>[](\A r \in Req : Decided(r))
  /\ [](\A r \in Req : /\ Cardinality(Outcomes(r)) <= 1
                       /\ Cardinality(ErrIdx(r, "NOMATCH")) <= 1)
  /\ [][\A r \in Req :
         /\ req[r].finished => req'[r].finished
         /\ Closed(r) => Closed(r)'
         /\ req[r].runs # req'[r].runs => ~HasErr(r, "NOMATCH")']_vars

\* the no-match error of a request ended and not aborted, with an Interceptor
\* registered for another path
C7_Witness ==
  \E r \in Req :
    /\ req[r].finished /\ ~req[r].aborted /\ ~Queued(r)
    /\ HasErr(r, "NOMATCH") /\ Len(allInterceptors) > 0 /\ ~allowUnmocked

\* C11: a request aborted before its 'socket' event emits one 'abort' event,
\* whatever write, end or flushHeaders calls came before or after the abort, and
\* none of 'socket', 'connect', 'finish', 'response', the ECONNRESET error and
\* 'close', then or at any later step
NeverAfterEarlyAbort ==
  {"socket", "connect", "secureConnect", "finish", "response", "close"}
EarlyAbort(r) == req[r].aborted /\ ~Has(r, "socket")
OnlyAbort(r) ==
  /\ \A k \in 1..Len(req[r].events) :
       req[r].events[k].name \notin NeverAfterEarlyAbort
  /\ ~HasErr(r, "ECONNRESET")
  /\ Cardinality(Idx(r, "abort")) + Cardinality(QueuedAborts(r)) = 1
  /\ ~Queued(r) => Cardinality(Idx(r, "abort")) = 1
C11_AbortBeforeSocket ==
  /\ [](\A r \in Req : EarlyAbort(r) => OnlyAbort(r))
  /\ [][\A r \in Req : EarlyAbort(r) => OnlyAbort(r)']_vars

\* end() and then abort() in the run that created the request
C11_Witness ==
  \E r \in Req :
    /\ req[r].aborted /\ req[r].connecting /\ req[r].finished
    /\ req[r].playbackOnSocket /\ ~Queued(r)
    /\ req[r].events = <<E("abort")>>

\* C12: a request aborted once its response exists (from its 'response' listener
\* or later) emits one 'abort' event; the abort raises no error, so the request
\* has no ECONNRESET error and the step of the abort adds no 'error' event,
\* emitted or queued; the Interceptor that answered was consumed, and the Scope
\* is done when that was its last use
QueuedErrors(r) ==
  {k \in 1..Len(tickQ) : tickQ[k].kind = "error" /\ tickQ[k].r = r}
Errors(r) == Cardinality(Idx(r, "error")) + Cardinality(QueuedErrors(r))
C12_AbortAfterResponse ==
  /\ [](\A r \in Req :
         (req[r].aborted /\ req[r].res) =>
           /\ ~HasErr(r, "ECONNRESET")
           /\ \A k \in QueuedErrors(r) : tickQ[k].code # "ECONNRESET"
           /\ Cardinality(Idx(r, "abort")) + Cardinality(QueuedAborts(r)) = 1
           /\ req[r].matched # 0
           /\ icp[req[r].matched].interceptionCounter >= 1
           /\ (persist \/ icp[req[r].matched].counter < 1)
                => isDone(World(NoListeners)))
  /\ [][\A r \in Req :
         (~req[r].aborted /\ req'[r].aborted /\ req'[r].res) =>
           Errors(r)' = Errors(r)]_vars

\* the abort made in the 'response' listener, as the test expects its events
C12_Witness ==
  \E r \in Req :
    /\ req[r].events = <<E("socket"), E("connect"), E("finish"), E("response"),
                         E("abort"), E("close")>>
    /\ isDone(World(NoListeners))

\* C13: an Interceptor is consumed in the step that emits 'response' and in no
\* other: its consumed-count is the number of 'response' events it has given,
\* and as long as no request has emitted 'response' (aborted after matching
\* included) the counts, the live list and the Scope's pending view are as
\* registration left them and isDone() is false
Registered(path) ==
  SelectSeq(scopeInterceptors, LAMBDA i : icp[i].path = path)
C13_ConsumedAtResponse ==
  /\ \A i \in 1..Len(scopeInterceptors) :
       icp[i].interceptionCounter = Cardinality(Served(i))
  /\ (\A r \in Req : ~Has(r, "response")) =>
       /\ allInterceptors = scopeInterceptors
       /\ \A i \in 1..Len(scopeInterceptors) :
            icp[i].counter = Effective(icp[i].declared)
       /\ DOMAIN keyedInterceptors =
            {icp[i].path : i \in 1..Len(scopeInterceptors)}
       /\ \A key \in DOMAIN keyedInterceptors :
            keyedInterceptors[key] = Registered(key)
       /\ Len(scopeInterceptors) > 0 => ~isDone(World(NoListeners))

\* the abort made in the 'finish' listener, after the Interceptor was selected
C13_Witness ==
  \E r \in Req :
    /\ req[r].matched # 0 /\ req[r].aborted /\ ~Queued(r)
    /\ Has(r, "finish") /\ ~Has(r, "response")
    /\ HasErr(r, "ECONNRESET")
    /\ icp[req[r].matched].interceptionCounter = 0
    /\ ~isDone(World(NoListeners))

\* C14: a request aborted before its 'response' event never emits 'response'
\* or 'data', whether the abort came before matching, after an Interceptor was
\* matched, or while the response or its body was still due
PlaybackDue(r) ==
  {k \in 1..Len(macroQ) :
     macroQ[k].r = r /\ macroQ[k].kind \in {"start", "respond", "body"}}
C14_NoResponseAfterAbort ==
  /\ [](\A r \in Req :
         (req[r].aborted /\ ~req[r].res) => ~Has(r, "response") /\ ~Has(r, "data"))
  /\ [][\A r \in Req :
         req[r].aborted =>
           /\ Idx(r, "response")' = Idx(r, "response")
           /\ Idx(r, "data")' = Idx(r, "data")
           /\ req'[r].res = req[r].res]_vars

\* the request is aborted after it was matched, while its response is still due
C14_Witness ==
  \E r \in Req :
    /\ req[r].aborted /\ req[r].matched # 0 /\ Has(r, "finish")
    /\ ~req[r].res
    /\ \E k \in PlaybackDue(r) : macroQ[k].kind = "respond"

\* C15: a write() on an ended request does nothing but raise the 'write after
\* end' error (code ERR_STREAM_WRITE_AFTER_END): the body buffer of an ended
\* request never changes, and the request is matched with the body buffered up
\* to end()
WriteAfterEnd == Ev("error", "ERR_STREAM_WRITE_AFTER_END", "write after end")
C15_WriteAfterEnd ==
  /\ [](\A r \in Req :
         /\ (req[r].created /\ req[r].finished) =>
              \A chunk \in Chunks, callback \in BOOLEAN :
                handleWrite(World(NoListeners), r, chunk, callback)
                  = [World(NoListeners) EXCEPT
                       !.tickQ = Append(@, Task("error", r, WriteAfterEnd.code))]
         /\ \A k \in ErrIdx(r, WriteAfterEnd.code) :
              req[r].events[k] = WriteAfterEnd)
  /\ [][\A r \in Req :
         /\ req[r].finished =>
              req'[r].requestBodyBuffers = req[r].requestBodyBuffers
         /\ (req'[r].runs # req[r].runs /\ req'[r].finished) =>
              req'[r].matchedBody = Concat(req'[r].requestBodyBuffers)]_vars

\* end('a'), then write(): the error is emitted and the request is answered
C15_Witness ==
  \E r \in Req :
    /\ req[r].finished /\ ~req[r].aborted /\ ~Queued(r)
    /\ Cardinality(ErrIdx(r, WriteAfterEnd.code)) = 1
    /\ req[r].matchedBody = <<97>> /\ req[r].requestBodyBuffers = <<<<97>>>>
    /\ Has(r, "response") /\ Has(r, "end")

\* C16, as stated for write-after-end: the error of a write() on an ended
\* request is raised inside that call and is never left to a later tick, so it
\* is never found among the callbacks given to process.nextTick
C16_MisuseSynchronous ==
  \A k \in 1..Len(tickQ) :
    ~(tickQ[k].kind = "error" /\ tickQ[k].code = WriteAfterEnd.code)

\* C17, as stated: a write() of an empty payload on a request that is neither
\* ended nor aborted leaves the body buffer as it is and calls the callback it
\* was given
C17_EmptyWriteCallback ==
  \A r \in Req :
    (req[r].created /\ ~req[r].finished /\ ~req[r].aborted) =>
      LET w == handleWrite(World(NoListeners), r, <<>>, TRUE)
      IN /\ w.req[r].requestBodyBuffers = req[r].requestBodyBuffers
         /\ w.req[r].cbCalls = req[r].cbCalls + 1

\* C18, as stated: a write() on an aborted request queues no 'error' event and
\* appends nothing to the body buffer, whatever was called on the request before
C18_WriteAfterAbort ==
  \A r \in Req :
    (req[r].created /\ req[r].aborted) =>
      \A chunk \in Chunks, callback \in BOOLEAN :
        LET w == handleWrite(World(NoListeners), r, chunk, callback)
        IN /\ w.tickQ = tickQ
           /\ w.req[r].requestBodyBuffers = req[r].requestBodyBuffers

\* C19, as stated: once startPlayback has run for a request no write() is
\* accepted, so the body buffer stays the one matching was given
C19_NoWriteAfterMatching ==
  \A r \in Req :
    req[r].playbackStarted =>
      Concat(req[r].requestBodyBuffers) = req[r].matchedBody

\* C20: for a Scope that is not persisted and whose only Interceptor is not
\* optional and has repeat count N, isDone() is false while fewer than N
\* matching requests have been answered and true from the N-th answer on
C20_IsDoneRepeat ==
  (Len(scopeInterceptors) = 1 /\ ~persist /\ ~icp[1].optional) =>
    (isDone(World(NoListeners))
       <=> Cardinality(Served(1)) >= Effective(icp[1].declared))

\* times(2): the second request has been answered and the third refused
C20_Witness ==
  /\ Len(scopeInterceptors) = 1 /\ ~persist /\ icp[1].declared = MaxTimes
  /\ Cardinality(Served(1)) = MaxTimes
  /\ isDone(World(NoListeners))
  /\ \E r \in Req : HasErr(r, "NOMATCH") /\ req[r].path = icp[1].path

\* ------------------------------------------------------------------ C21
\* the Interceptors that are still in the Scope's pending view
InView == {i \in IcId : \E key \in DOMAIN keyedInterceptors :
                          InSeq(keyedInterceptors[key], i)}

C22_PersistedStays ==
  persist =>
    /\ \A k \in 1..Len(scopeInterceptors) :
         LET i == scopeInterceptors[k]
         IN /\ icp[i].path \in activeMocks(World(NoListeners))
            /\ InSeq(keyedInterceptors[icp[i].path], i)
            /\ InSeq(allInterceptors, i)
    /\ \A r \in Req :
         (req[r].runs > 0 /\ Registered(req[r].path) # <<>>) =>
           /\ req[r].matched # 0
           /\ ~HasErr(r, "NOMATCH")
           /\ Settled(r) => Has(r, "response")

\* an Interceptor declared for one use on a persisted Scope has answered every
\* request and is still active
C22_Witness ==
  /\ persist
  /\ \E i \in IcId :
       /\ icp[i].declared = 1
       /\ Cardinality(Served(i)) = NumReq
       /\ icp[i].path \in activeMocks(World(NoListeners))

\* ------------------------------------------------------------------ C23
\* the repeat count of an Interceptor is used up
Exhausted(i) == Cardinality(Served(i)) >= Effective(icp[i].declared)

\* C23: on a Scope that is not persisted an Interceptor whose repeat count is
\* used up is in no list of the pending view and not in the live list, but is
\* still in the Scope's full list; and no step removes or reorders an entry of
\* the full list, which only grows at its end
C23_FullListKept ==
  /\ [](~persist =>
          \A i \in IcId :
            Exhausted(i) =>
              /\ i \notin InView
              /\ ~InSeq(allInterceptors, i)
              /\ InSeq(scopeInterceptors, i))
  /\ [][/\ Len(scopeInterceptors') >= Len(scopeInterceptors)
        /\ SubSeq(scopeInterceptors', 1, Len(scopeInterceptors))
             = scopeInterceptors]_vars

\* of two Interceptors the first is used up and gone from the pending view, the
\* second is still pending, and both are in the full list in registration order
C23_Witness ==
  /\ ~persist
  /\ Len(scopeInterceptors) = MaxIcs
  /\ scopeInterceptors[1] \notin InView /\ Exhausted(scopeInterceptors[1])
  /\ Served(scopeInterceptors[1]) # {}
  /\ scopeInterceptors[MaxIcs] \in InView

\* ------------------------------------------------------------------ C24
\* C24: in every reachable state cleanAll() leaves no active and no pending
\* Interceptor and an empty live list, and a second cleanAll() changes nothing;
\* and once nothing is active, a request that starts matching finds no
\* Interceptor and is not passed through
C24_CleanAll ==
  /\ [](LET c == cleanAll(World(NoListeners))
        IN /\ activeMocks(c) = {}
           /\ pendingMocks(c) = {}
           /\ c.allInterceptors = <<>>
           /\ isDone(c)
           /\ cleanAll(c) = c)
  /\ [][\A r \in Req :
          (activeMocks(World(NoListeners)) = {}
             /\ req[r].runs = 0 /\ req'[r].runs > 0) =>
            req'[r].matched = 0 /\ ~req'[r].passed]_vars

\* nothing was ever consumed and the pending view is empty, so cleanAll() has
\* run; a request for the path of a registered Interceptor got the no-match
\* error
C24_Witness ==
  /\ activeMocks(World(NoListeners)) = {}
  /\ \A i \in IcId : Served(i) = {}
  /\ \E r \in Req :
       /\ HasErr(r, "NOMATCH")
       /\ Registered(req[r].path) # <<>>

\* ------------------------------------------------------------------ C25
\* a request for which no Interceptor was found: one to the host without
\* Interceptor, or one whose matching found none
Unmatched(r) ==
  /\ req[r].created
  /\ req[r].host = "other" \/ (req[r].runs > 0 /\ req[r].matched = 0)

C26_PassThrough ==
  \A r \in Req :
    req[r].passed =>
      /\ req[r].passedBody = Concat(req[r].requestBodyBuffers)
      /\ \A i \in IcId : icp[i].interceptionCounter = 0
      /\ allInterceptors = scopeInterceptors
      /\ ~Has(r, "finish")
      /\ ~HasErr(r, "NOMATCH")
      /\ \A k \in 1..Len(tickQ) : tickQ[k].code # "NOMATCH"

\* ------------------------------------------------------------------ C27
\* the connection delay of the Interceptor that answers request r is running
DelayRunning(r) ==
  /\ req[r].matched # 0
  /\ icp[req[r].matched].delayed
  /\ \/ \E k \in 1..Len(macroQ) :
          macroQ[k].r = r /\ macroQ[k].kind \in {"start", "respond"}

\* C27: while the connection delay of the Interceptor that answers a request is
\* running, the request's socket has emitted neither 'connect' nor
\* 'secureConnect'
C27_ConnectDeferred ==
  \A r \in Req :
    DelayRunning(r) => ~Has(r, "connect") /\ ~Has(r, "secureConnect")

\* ------------------------------------------------------------------ functions
\* JavaScript values: a string is the sequence of its pieces, so that joined
\* strings can be compared; an array of strings is the sequence of its elements
Str(pieces) == [type |-> "string", v |-> pieces]
Arr(strings) == [type |-> "array", v |-> strings]
isArray(x) == x.type = "array"

\* header field names, as user code and the wire spell them
FieldNames == {"X-A", "x-a", "Set-Cookie", "set-cookie", "Cookie",
               "Content-Type", "content-type"}

\* String.prototype.toLowerCase on the field names
toLowerCase(name) ==
  CASE name \in {"X-A", "x-a"} -> "x-a"
    [] name \in {"Set-Cookie", "set-cookie"} -> "set-cookie"
    [] name \in {"Cookie"} -> "cookie"
    [] name \in {"Content-Type", "content-type"} -> "content-type"
    [] name \in {"X-Foo", "x-foo", "X-FOO"} -> "x-foo"
    [] name \in {"X-Bar", "x-bar"} -> "x-bar"
    [] OTHER -> name

\* headers[key] = value on a header object
SetField(headers, key, value) ==
  [k \in DOMAIN headers \cup {key} |-> IF k = key THEN value ELSE headers[k]]

\* a defined and truthy field: an array, or a string that is not empty
Truthy(headers, key) ==
  key \in DOMAIN headers /\ (isArray(headers[key]) \/ headers[key].v # <<>>)

\* headersArrayToObject of lib/common.js, from index i of the raw array on
RECURSIVE headersArrayToObjectFrom(_, _, _)
headersArrayToObjectFrom(rawHeaders, i, headers) ==
  IF i > Len(rawHeaders) THEN headers
  ELSE LET key == toLowerCase(rawHeaders[i])
           value == rawHeaders[i + 1]
       IN headersArrayToObjectFrom(rawHeaders, i + 2,
            IF Truthy(headers, key)
            THEN SetField(headers, key,
                   Arr(Append(IF isArray(headers[key]) THEN headers[key].v
                              ELSE <<headers[key]>>, value)))
            ELSE SetField(headers, key, value))

headersArrayToObject(rawHeaders) == headersArrayToObjectFrom(rawHeaders, 1, <<>>)

noDuplicatesHeaders ==
  {"age", "authorization", "content-length", "content-type", "etag", "expires",
   "from", "host", "if-modified-since", "if-unmodified-since", "last-modified",
   "location", "max-forwards", "proxy-authorization", "referer", "retry-after",
   "user-agent"}

\* Array.prototype.join on strings
RECURSIVE join(_, _)
join(values, separator) ==
  IF Len(values) = 1 THEN Head(values)
  ELSE Str(Head(values).v \o <<separator>> \o join(Tail(values), separator).v)

\* addHeaderLine, for a value that is a string or an array of strings
addHeaderLine(headers, name, value) ==
  LET values == IF isArray(value) THEN value.v ELSE <<value>>
      key == toLowerCase(name)
  IN IF key = "set-cookie"
     THEN IF key \notin DOMAIN headers
          THEN SetField(headers, key, Arr(values))
          ELSE SetField(headers, key, Arr(headers[key].v \o values))
     ELSE IF key \in noDuplicatesHeaders
     THEN IF key \notin DOMAIN headers
          THEN SetField(headers, key, values[1])
          ELSE headers
     ELSE LET all == IF key \in DOMAIN headers
                     THEN <<headers[key]>> \o values ELSE values
          IN SetField(headers, key, join(all, IF key = "cookie" THEN "; " ELSE ", "))

\* forEachHeader with the callback of the newer headersArrayToObject
RECURSIVE forEachHeader(_, _, _)
forEachHeader(rawHeaders, i, accumulator) ==
  IF i > Len(rawHeaders) THEN accumulator
  ELSE forEachHeader(rawHeaders, i + 2,
                     addHeaderLine(accumulator, rawHeaders[i], rawHeaders[i + 1]))

\* headersArrayToObject of the newer common.js
headersArrayToObjectNode(rawHeaders) == forEachHeader(rawHeaders, 1, <<>>)

\* Scope.prototype.matchHeader that keeps the declared spelling of the name
matchHeaderKeepCase(matchHeaders, name, value) ==
  Append(matchHeaders, [name |-> name, value |-> value])

\* Scope.prototype.matchHeader
matchHeader(matchHeaders, name, value) ==
  Append(matchHeaders, [name |-> toLowerCase(name), value |-> value])

Throw == [type |-> "throw", v |-> <<>>]
Undefined == [type |-> "undefined", v |-> <<>>]
isUndefined(x) == x.type = "undefined"
isObject(x) == x.type = "object"
Obj(fields) == [type |-> "object", v |-> fields]

\* an object is the sequence of its own [name, value] properties in insertion
\* order, the names distinct; lowerCaseHeaders is built as a function of names.
\* The _.forOwn loop of headersFieldNamesToLowerCase over the properties pairs
\* still to visit
RECURSIVE forOwnLowerCase(_, _)
forOwnLowerCase(pairs, lowerCaseHeaders) ==
  IF pairs = <<>> THEN [type |-> "object", v |-> lowerCaseHeaders]
  ELSE LET fieldName == Head(pairs).name
           fieldVal == Head(pairs).value
           lowerCaseFieldName == toLowerCase(fieldName)
       IN IF /\ lowerCaseFieldName \in DOMAIN lowerCaseHeaders
             /\ ~isUndefined(lowerCaseHeaders[lowerCaseFieldName])
          THEN Throw
          ELSE forOwnLowerCase(Tail(pairs),
                               SetField(lowerCaseHeaders, lowerCaseFieldName, fieldVal))

\* headersFieldNamesToLowerCase: the header object with lower-cased names, the
\* error it throws, or its argument when that is not an object
headersFieldNamesToLowerCase(headers) ==
  IF ~isObject(headers) THEN headers
  ELSE forOwnLowerCase(headers.v, <<>>)

\* the own properties of a header object given as a function of names, in
\* some order: with no value undefined the order does not change the result
RECURSIVE ownPairs(_)
ownPairs(headers) ==
  IF DOMAIN headers = {} THEN <<>>
  ELSE LET n == CHOOSE n \in DOMAIN headers : TRUE
       IN <<[name |-> n, value |-> headers[n]]>> \o
          ownPairs([k \in DOMAIN headers \ {n} |-> headers[k]])

\* a regular expression, given by the strings it matches
RegExp(strings) == [type |-> "regexp", v |-> strings]
isRegExp(pattern) == pattern.type = "regexp"

\* matchStringOrRegexp
matchStringOrRegexp(target, pattern) ==
  LET str == IF target.type = "undefined" THEN Str(<<>>) ELSE target
  IN IF isRegExp(pattern) THEN str \in pattern.v ELSE str = pattern

\* the required headers of a Scope against the headers of a request, as the
\* router's constructor keeps them
matchHeadersMatch(matchHeaders, headers) ==
  \A k \in 1..Len(matchHeaders) :
    matchStringOrRegexp(IF matchHeaders[k].name \in DOMAIN headers
                        THEN headers[matchHeaders[k].name] ELSE Undefined,
                        matchHeaders[k].value)

\* scope.matchHeader(name, value), then a request with the header object
\* headers: the router's constructor, then the match
requestAgainstMatchHeader(name, value, headers) ==
  LET matchHeaders == matchHeader(<<>>, name, value)
      lowerCaseHeaders == headersFieldNamesToLowerCase(Obj(ownPairs(headers)))
  IN IF lowerCaseHeaders.type = "throw" THEN "throw"
     ELSE IF matchHeadersMatch(matchHeaders, lowerCaseHeaders.v) THEN "match"
     ELSE "no match"

\* the calls: a required header and a request with up to two headers
DeclaredNames == {"X-Foo", "x-foo", "X-FOO", "X-Bar"}
SentNames == {"X-Foo", "x-foo", "X-FOO", "x-bar"}
SentValues == {Str(<<"bar">>), Str(<<"baz">>)}
DeclaredValues == SentValues \cup {RegExp({Str(<<"bar">>)})}
HeaderObjects ==
  UNION {[names -> SentValues] :
           names \in {S \in SUBSET SentNames : Cardinality(S) <= Cardinality(BOOLEAN)}}

HeaderCalls ==
  {[op |-> "matchHeader",
    in |-> [name |-> name, value |-> value, headers |-> headers],
    out |-> <<>>, done |-> FALSE] :
     name \in DeclaredNames, value \in DeclaredValues, headers \in HeaderObjects}

\* JSON values: numbers, strings, arrays, and objects as functions of their keys
Num(n) == [type |-> "number", v |-> n]

\* the pieces a request body is written with: a body is a sequence of them
Quoted == {"\"n\"", "\"1\""}
Unquote(piece) == IF piece = "\"n\"" THEN "n" ELSE "1"
BodyPieces == {"{", "}", "[", "]", ":", "1"} \cup Quoted

\* the parser of JSON.parse on these pieces: the value the text begins with and
\* the rest of the text, or a failure
ParseFail == [ok |-> FALSE, value |-> Undefined, rest |-> <<>>]
Parsed(value, rest) == [ok |-> TRUE, value |-> value, rest |-> rest]
RECURSIVE parseValue(_)
parseValue(text) ==
  IF text = <<>> THEN ParseFail
  ELSE IF Head(text) = "1" THEN Parsed(Num(1), Tail(text))
  ELSE IF Head(text) \in Quoted THEN Parsed(Str(<<Unquote(Head(text))>>), Tail(text))
  ELSE IF Head(text) = "{"
  THEN IF Len(text) >= 2 /\ text[2] = "}"
       THEN Parsed(Obj(<<>>), SubSeq(text, 3, Len(text)))
       ELSE IF Len(text) >= 3 /\ text[2] \in Quoted /\ text[3] = ":"
       THEN LET member == parseValue(SubSeq(text, 4, Len(text)))
            IN IF member.ok /\ member.rest # <<>> /\ Head(member.rest) = "}"
               THEN Parsed(Obj([key \in {Unquote(text[2])} |-> member.value]),
                           Tail(member.rest))
               ELSE ParseFail
       ELSE ParseFail
  ELSE IF Head(text) = "["
  THEN IF Len(text) >= 2 /\ text[2] = "]"
       THEN Parsed(Arr(<<>>), SubSeq(text, 3, Len(text)))
       ELSE LET element == parseValue(Tail(text))
            IN IF element.ok /\ element.rest # <<>> /\ Head(element.rest) = "]"
               THEN Parsed(Arr(<<element.value>>), Tail(element.rest))
               ELSE ParseFail
  ELSE ParseFail

\* JSON.parse: the value of the whole text, or a SyntaxError
JSONparse(text) ==
  LET whole == parseValue(text)
  IN IF whole.ok /\ whole.rest = <<>> THEN whole ELSE ParseFail

\* deep equality that lets a number equal the string that spells it
RECURSIVE deepEqualLoose(_, _)
deepEqualLoose(expected, actual) ==
  IF expected.type \in {"number", "string"} /\ actual.type \in {"number", "string"}
  THEN (IF expected.type = "number" THEN <<"1">> ELSE expected.v)
         = (IF actual.type = "number" THEN <<"1">> ELSE actual.v)
  ELSE IF expected.type # actual.type THEN FALSE
  ELSE IF expected.type = "object"
  THEN /\ DOMAIN expected.v = DOMAIN actual.v
       /\ \A key \in DOMAIN expected.v :
            deepEqualLoose(expected.v[key], actual.v[key])
  ELSE /\ Len(expected.v) = Len(actual.v)
       /\ \A k \in 1..Len(expected.v) : deepEqualLoose(expected.v[k], actual.v[k])

\* deep, type-strict equality of two values
RECURSIVE deepEqual(_, _)
deepEqual(expected, actual) ==
  IF expected.type # actual.type THEN FALSE
  ELSE IF expected.type = "object"
  THEN /\ DOMAIN expected.v = DOMAIN actual.v
       /\ \A key \in DOMAIN expected.v : deepEqual(expected.v[key], actual.v[key])
  ELSE IF expected.type = "array"
  THEN /\ Len(expected.v) = Len(actual.v)
       /\ \A k \in 1..Len(expected.v) : deepEqual(expected.v[k], actual.v[k])
  ELSE expected.v = actual.v

\* matchBody for an expectation that is an object, an array or a string: the
\* body is parsed when an object or array is expected, and is compared as the
\* string it is when it cannot be parsed; a SyntaxError is caught
matchBody(spec, text) ==
  LET json == IF spec.type \in {"object", "array"} THEN JSONparse(text)
              ELSE ParseFail
      actual == IF json.ok THEN json.value ELSE Str(text)
  IN IF deepEqual(spec, actual) THEN "match" ELSE "no match"

\* the calls: an expectation and a body of up to MaxPieces pieces
MaxPieces == 5
BodyTexts(n) == UNION {[1..k -> BodyPieces] : k \in 0..n}
BodySpecs ==
  {Obj(<<>>), Obj([n |-> Num(1)]), Obj([n |-> Str(<<"1">>)]),
   Arr(<<Num(1)>>), Arr(<<Str(<<"1">>)>>), Str(<<"1">>)}
BodyCalls ==
  {[op |-> "matchBody", in |-> [spec |-> spec, body |-> text],
    out |-> <<>>, done |-> FALSE] :
     spec \in BodySpecs, text \in BodyTexts(MaxPieces)}

\* NaN is a number for _.isNumber
NaN == [type |-> "NaN", v |-> 0]
isNumber(x) == x.type \in {"number", "NaN"}

\* the decimal digits a string can be written with
Digits == {"0", "1", "2", "4"}
DigitValue(piece) ==
  CASE piece = "0" -> 0 [] piece = "1" -> 1 [] piece = "2" -> 2 [] piece = "4" -> 4

\* the digits a string begins with, read as a decimal number after the number
\* acc read so far
RECURSIVE leadingDigits(_, _)
leadingDigits(pieces, acc) ==
  IF pieces = <<>> \/ Head(pieces) \notin Digits THEN acc
  ELSE leadingDigits(Tail(pieces), 10 * acc + DigitValue(Head(pieces)))

\* parseInt(x, 10) for undefined, a non-negative integer or a string
parseInt(x) ==
  IF x.type = "number" THEN x
  ELSE IF x.type = "string" /\ x.v # <<>> /\ Head(x.v) \in Digits
  THEN Num(leadingDigits(x.v, 0))
  ELSE NaN

\* x || y
OrElse(x, y) ==
  IF x.type \in {"undefined", "NaN"} \/ x = Num(0) \/ x = Str(<<>>) THEN y ELSE x

\* getStatusFromDefinition
DEFAULT_STATUS_OK == Num(200)
getStatusFromDefinition(nockDef) ==
  LET parsedReply == parseInt(nockDef.reply)
  IN IF ~isUndefined(nockDef.reply) /\ isNumber(parsedReply) THEN parsedReply
     ELSE OrElse(nockDef.status, DEFAULT_STATUS_OK)

\* the calls: definitions with or without status and reply
Replies == {Undefined, Str(<<"2", "0", "1">>), Str(<<"a", "b", "c">>),
            Str(<<"2", "x">>), Num(201)}
Statuses == {Undefined, Num(0), Num(200), Num(404)}
StatusCalls ==
  {[op |-> "getStatusFromDefinition", in |-> [reply |-> reply, status |-> status],
    out |-> <<>>, done |-> FALSE] :
     reply \in Replies, status \in Statuses}

\* new InterceptedRequestRouter({ req, options, interceptors }): the headers of
\* the options it keeps, or the error the constructor throws
InterceptedRequestRouter(optionsHeaders) ==
  headersFieldNamesToLowerCase(OrElse(optionsHeaders, Obj(<<>>)))

\* the calls: header objects of up to MaxFields properties, a value being a
\* string or undefined, and no header object at all
MaxFields == 3
Properties == [name : SentNames, value : SentValues \cup {Undefined}]
OrderedObjects ==
  {Obj(pairs) :
     pairs \in {s \in UNION {[1..n -> Properties] : n \in 0..MaxFields} :
                  \A j, k \in 1..Len(s) : j # k => s[j].name # s[k].name}}
LowerCaseCalls ==
  {[op |-> op, in |-> headers, out |-> <<>>, done |-> FALSE] :
     op \in {"headersFieldNamesToLowerCase", "InterceptedRequestRouter"},
     headers \in OrderedObjects \cup {Undefined}}

\* ------------------------------------------- declarations on a Scope
\* further values: booleans, null, and functions known by a name
Bool(b) == [type |-> "boolean", v |-> b]
Null == [type |-> "null", v |-> <<>>]
Func(name) == [type |-> "function", v |-> name]
isFunction(x) == x.type = "function"

\* a Scope is reduced to the fields the three declarations assign; what a
\* call leaves is the Scope and whether it threw

\* Scope.prototype.buildFilter: a replacing function for a regular
\* expression, the argument itself when it is a function, else undefined
buildFilter(arguments) ==
  IF isRegExp(arguments[1]) THEN Func(<<"replace", arguments>>)
  ELSE IF isFunction(arguments[1]) THEN arguments[1]
  ELSE Undefined

\* Scope.prototype.filteringPath
filteringPath(scope, arguments) ==
  LET this == [scope EXCEPT !.transformPathFunction = buildFilter(arguments)]
  IN [scope |-> this, thrown |-> isUndefined(this.transformPathFunction)]

\* Scope.prototype.filteringRequestBody
filteringRequestBody(scope, arguments) ==
  LET this == [scope EXCEPT !.transformRequestBodyFunction = buildFilter(arguments)]
  IN [scope |-> this, thrown |-> isUndefined(this.transformRequestBodyFunction)]

\* Scope.prototype.persist with any argument
persistFlag(scope, flag) ==
  LET this == [scope EXCEPT !.persist = IF flag.type \in {"null", "undefined"}
                                        THEN Bool(TRUE) ELSE flag]
  IN [scope |-> this, thrown |-> this.persist.type # "boolean"]

\* the calls: a Scope as earlier declarations left it, and an argument of any
\* type
Scopes ==
  [persist : {Bool(FALSE), Bool(TRUE)},
   transformPathFunction : {Null, Func("f")},
   transformRequestBodyFunction : {Null, Func("f")}]
Flags == {Undefined, Null, Bool(TRUE), Bool(FALSE), Str(<<"yes">>), Num(0),
          Num(Cardinality({"/"}))}
Filters == {<<RegExp({Str(<<"a">>)}), Str(<<"b">>)>>, <<Func("g"), Undefined>>,
            <<Str(<<"a">>), Str(<<"b">>)>>, <<Undefined, Undefined>>,
            <<Null, Undefined>>}
ScopeCalls ==
  {[op |-> "persist", in |-> [scope |-> scope, arguments |-> flag],
    out |-> <<>>, done |-> FALSE] : scope \in Scopes, flag \in Flags}
  \cup
  {[op |-> op, in |-> [scope |-> scope, arguments |-> arguments],
    out |-> <<>>, done |-> FALSE] :
     op \in {"filteringPath", "filteringRequestBody"},
     scope \in Scopes, arguments \in Filters}

\* ------------------------------------------- the request body as a string
\* a Buffer is a sequence of bytes, a string a sequence of code points
\* buffer.toString('utf8'): bytes below 128 stand for themselves, a lead byte
\* 194..223 with a continuation byte 128..191 is one code point, and any other
\* byte decodes to U+FFFD (leads of longer sequences are not among Bytes)
RECURSIVE toStringUtf8(_)
toStringUtf8(buffer) ==
  IF buffer = <<>> THEN <<>>
  ELSE IF Head(buffer) < 128 THEN <<Head(buffer)>> \o toStringUtf8(Tail(buffer))
  ELSE IF /\ Head(buffer) \in 194..223
          /\ Len(buffer) > 1
          /\ buffer[2] \in 128..191
       THEN <<(Head(buffer) - 192) * 64 + (buffer[2] - 128)>>
            \o toStringUtf8(Tail(Tail(buffer)))
  ELSE <<65533>> \o toStringUtf8(Tail(buffer))

\* Buffer.from(string, 'utf8')
RECURSIVE bufferFromUtf8(_)
bufferFromUtf8(string) ==
  IF string = <<>> THEN <<>>
  ELSE LET c == Head(string)
           bytes == IF c < 128 THEN <<c>>
                    ELSE IF c < 2048 THEN <<192 + (c \div 64), 128 + (c % 64)>>
                    ELSE <<224 + (c \div 4096), 128 + ((c \div 64) % 64),
                           128 + (c % 64)>>
       IN bytes \o bufferFromUtf8(Tail(string))

\* buffer.toString('hex'): two lower-case hexadecimal digits per byte
hexDigit(n) == IF n < 10 THEN 48 + n ELSE 87 + n
RECURSIVE toStringHex(_)
toStringHex(buffer) ==
  IF buffer = <<>> THEN <<>>
  ELSE <<hexDigit(Head(buffer) \div 16), hexDigit(Head(buffer) % 16)>>
       \o toStringHex(Tail(buffer))

\* common.isUtf8Representable, for a Buffer
isUtf8Representable(buffer) ==
  LET utfEncodedBuffer == toStringUtf8(buffer)
      reconstructedBuffer == bufferFromUtf8(utfEncodedBuffer)
  IN ~(reconstructedBuffer = buffer)

\* startPlayback: the body string given to the Interceptors' match
requestBodyString(requestBodyBuffers) ==
  LET requestBodyBuffer == Concat(requestBodyBuffers)
      requestBodyIsUtf8Representable == isUtf8Representable(requestBodyBuffer)
  IN IF requestBodyIsUtf8Representable THEN toStringUtf8(requestBodyBuffer)
     ELSE toStringHex(requestBodyBuffer)

\* the calls: up to two writes of up to MaxBytes bytes each: 'a', a control
\* byte, the two bytes of U+00E9 and a byte that is no UTF-8 on its own
MaxBytes == 2
Bytes == {97, 1, 195, 169, 128}
WrittenChunks == UNION {[1..n -> Bytes] : n \in 0..MaxBytes}
WrittenBuffers ==
  UNION {[1..n -> WrittenChunks] : n \in 0..Cardinality(BOOLEAN)}
StringCalls ==
  {[op |-> "requestBodyString", in |-> requestBodyBuffers, out |-> <<>>,
    done |-> FALSE] : requestBodyBuffers \in WrittenBuffers}

\* the calls: raw header arrays of up to MaxPairs name and value pairs
MaxPairs == 3
HeaderValues == {Str(<<"1">>), Str(<<"2">>)}
RECURSIVE RawHeaders(_)
RawHeaders(n) ==
  IF n = 0 THEN {<<>>}
  ELSE RawHeaders(n - 1) \cup
       {raw \o <<name, value>> :
          raw \in {x \in RawHeaders(n - 1) : Len(x) = 2 * (n - 1)},
          name \in FieldNames \ {"set-cookie", "content-type"},
          value \in HeaderValues}

FoldCalls ==
  {[op |-> op, in |-> raw, out |-> <<>>, done |-> FALSE] :
     op \in {"headersArrayToObject", "headersArrayToObjectNode"},
     raw \in RawHeaders(MaxPairs)}

\* everything but the call of a function
world == <<req, icp, scopeInterceptors, keyedInterceptors, allInterceptors,
           persist, allowUnmocked, allowNetConnect, tickQ, macroQ, inTask, calls,
           tasks, modules, requestOverrides>>

InitPure ==
  /\ req = [r \in Req |-> NoReq]
  /\ icp = [i \in IcId |-> NoIc]
  /\ scopeInterceptors = <<>>
  /\ keyedInterceptors = <<>>
  /\ allInterceptors = <<>>
  /\ persist = FALSE
  /\ allowUnmocked = FALSE
  /\ allowNetConnect = TRUE
  /\ tickQ = <<>>
  /\ macroQ = <<>>
  /\ inTask = TRUE
  /\ calls = 0
  /\ tasks = 0
  /\ fn \in FoldCalls \cup HeaderCalls \cup BodyCalls \cup StatusCalls
            \cup LowerCaseCalls \cup ScopeCalls \cup StringCalls
  /\ modules = Native
  /\ requestOverrides = <<>>

HeadersArrayToObject ==
  /\ fn.op = "headersArrayToObject" /\ ~fn.done
  /\ fn' = [fn EXCEPT !.out = headersArrayToObject(fn.in), !.done = TRUE]
  /\ UNCHANGED world

HeadersArrayToObjectNode ==
  /\ fn.op = "headersArrayToObjectNode" /\ ~fn.done
  /\ fn' = [fn EXCEPT !.out = headersArrayToObjectNode(fn.in), !.done = TRUE]
  /\ UNCHANGED world

MatchHeader ==
  /\ fn.op = "matchHeader" /\ ~fn.done
  /\ fn' = [fn EXCEPT !.out = requestAgainstMatchHeader(fn.in.name, fn.in.value,
                                                        fn.in.headers),
                      !.done = TRUE]
  /\ UNCHANGED world

MatchBody ==
  /\ fn.op = "matchBody" /\ ~fn.done
  /\ fn' = [fn EXCEPT !.out = matchBody(fn.in.spec, fn.in.body), !.done = TRUE]
  /\ UNCHANGED world

GetStatusFromDefinition ==
  /\ fn.op = "getStatusFromDefinition" /\ ~fn.done
  /\ fn' = [fn EXCEPT !.out = getStatusFromDefinition(fn.in), !.done = TRUE]
  /\ UNCHANGED world

HeadersFieldNamesToLowerCase ==
  /\ fn.op = "headersFieldNamesToLowerCase" /\ ~fn.done
  /\ fn' = [fn EXCEPT !.out = headersFieldNamesToLowerCase(fn.in), !.done = TRUE]
  /\ UNCHANGED world

NewInterceptedRequestRouter ==
  /\ fn.op = "InterceptedRequestRouter" /\ ~fn.done
  /\ fn' = [fn EXCEPT !.out = InterceptedRequestRouter(fn.in), !.done = TRUE]
  /\ UNCHANGED world

PersistFlag ==
  /\ fn.op = "persist" /\ ~fn.done
  /\ fn' = [fn EXCEPT !.out = persistFlag(fn.in.scope, fn.in.arguments),
                      !.done = TRUE]
  /\ UNCHANGED world

FilteringPath ==
  /\ fn.op = "filteringPath" /\ ~fn.done
  /\ fn' = [fn EXCEPT !.out = filteringPath(fn.in.scope, fn.in.arguments),
                      !.done = TRUE]
  /\ UNCHANGED world

FilteringRequestBody ==
  /\ fn.op = "filteringRequestBody" /\ ~fn.done
  /\ fn' = [fn EXCEPT !.out = filteringRequestBody(fn.in.scope, fn.in.arguments),
                      !.done = TRUE]
  /\ UNCHANGED world

RequestBodyString ==
  /\ fn.op = "requestBodyString" /\ ~fn.done
  /\ fn' = [fn EXCEPT !.out = requestBodyString(fn.in), !.done = TRUE]
  /\ UNCHANGED world

NextPure ==
  \/ RequestBodyString
  \/ PersistFlag
  \/ FilteringPath
  \/ FilteringRequestBody
  \/ HeadersFieldNamesToLowerCase
  \/ NewInterceptedRequestRouter
  \/ GetStatusFromDefinition
  \/ HeadersArrayToObject
  \/ HeadersArrayToObjectNode
  \/ MatchHeader
  \/ MatchBody

SpecPure == InitPure /\ [][NextPure]_vars

\* ------------------------------------------------ overriding http and https
\* the loop of overrideRequests over the modules still to override: the
\* modules, requestOverrides, and whether the call threw
RECURSIVE forEachProto(_, _, _, _)
forEachProto(protos, state, newRequest, legacy) ==
  IF protos = <<>> THEN state
  ELSE LET moduleName == Head(protos)
           overriddenRequest == state.modules[moduleName].request
           overriddenGet == state.modules[moduleName].get
       IN IF moduleName \in DOMAIN state.requestOverrides
          THEN [state EXCEPT !.thrown = TRUE]
          ELSE forEachProto(
                 Tail(protos),
                 [state EXCEPT
                    !.requestOverrides =
                       SetField(@, moduleName, [request |-> overriddenRequest,
                                                get |-> overriddenGet]),
                    !.modules[moduleName] =
                       [request |-> Function(moduleName, "request", newRequest, legacy),
                        get |-> Function(moduleName, "get", newRequest, legacy)]],
                 newRequest, legacy)

\* the loop without the test of requestOverrides
RECURSIVE forEachProtoAgain(_, _, _, _)
forEachProtoAgain(protos, state, newRequest, legacy) ==
  IF protos = <<>> THEN state
  ELSE LET moduleName == Head(protos)
       IN forEachProtoAgain(
            Tail(protos),
            [state EXCEPT
               !.requestOverrides =
                  SetField(@, moduleName, state.modules[moduleName]),
               !.modules[moduleName] =
                  [request |-> Function(moduleName, "request", newRequest, legacy),
                   get |-> Function(moduleName, "get", newRequest, legacy)]],
            newRequest, legacy)

overrideRequestsAgain(state, newRequest, legacy) ==
  forEachProtoAgain(<<"http", "https">>, state, newRequest, legacy)

\* overrideRequests(newRequest, legacy)
overrideRequests(state, newRequest, legacy) ==
  forEachProto(<<"http", "https">>, state, newRequest, legacy)

\* restoreOverriddenRequests()
restoreOverriddenRequests(state) ==
  [state EXCEPT
     !.modules = [proto \in DOMAIN @ |->
                    IF proto \in DOMAIN state.requestOverrides
                    THEN [request |-> state.requestOverrides[proto].request,
                          get |-> state.requestOverrides[proto].get]
                    ELSE @[proto]],
     !.requestOverrides = <<>>]

\* the state the two functions work on
Overrides ==
  [modules |-> modules, requestOverrides |-> requestOverrides, thrown |-> FALSE]

MaxOverrideCalls == 6
MaxNewRequests == 2

\* a call of overrideRequests: fn records the call and whether it threw
OverrideRequests ==
  /\ calls < MaxOverrideCalls
  /\ \E newRequest \in 1..MaxNewRequests, legacy \in BOOLEAN :
       LET state == overrideRequests(Overrides, newRequest, legacy)
       IN /\ modules' = state.modules
          /\ requestOverrides' = state.requestOverrides
          /\ fn' = [op |-> "overrideRequests",
                    in |-> Function("", "newRequest", newRequest, legacy),
                    out |-> IF state.thrown THEN Throw ELSE Undefined,
                    done |-> TRUE]
  /\ calls' = calls + 1
  /\ UNCHANGED <<req, icp, scopeInterceptors, keyedInterceptors, allInterceptors,
                 persist, allowUnmocked, allowNetConnect, tickQ, macroQ, inTask,
                 tasks>>

\* a call of restoreOverriddenRequests: fn records the modules it found
\* overridden
RestoreOverriddenRequests ==
  /\ calls < MaxOverrideCalls
  /\ LET state == restoreOverriddenRequests(Overrides)
     IN /\ modules' = state.modules
        /\ requestOverrides' = state.requestOverrides
        /\ fn' = [op |-> "restoreOverriddenRequests",
                  in |-> DOMAIN requestOverrides,
                  out |-> IF state.thrown THEN Throw ELSE Undefined,
                  done |-> TRUE]
  /\ calls' = calls + 1
  /\ UNCHANGED <<req, icp, scopeInterceptors, keyedInterceptors, allInterceptors,
                 persist, allowUnmocked, allowNetConnect, tickQ, macroQ, inTask,
                 tasks>>

NextOverride ==
  \/ OverrideRequests
  \/ RestoreOverriddenRequests

SpecOverride == Init /\ [][NextOverride]_vars

\* ------------------------------------------------------------------ C28
\* the values a raw header array gives under the lower-cased name key, in order
RECURSIVE ValuesOf(_, _, _)
ValuesOf(rawHeaders, i, key) ==
  IF i > Len(rawHeaders) THEN <<>>
  ELSE (IF toLowerCase(rawHeaders[i]) = key THEN <<rawHeaders[i + 1]>> ELSE <<>>)
       \o ValuesOf(rawHeaders, i + 2, key)

KeysOf(rawHeaders) ==
  {toLowerCase(rawHeaders[i]) : i \in {j \in 1..Len(rawHeaders) : j % 2 = 1}}

\* the folded value the rule gives
Folded(rawHeaders, key) ==
  LET values == ValuesOf(rawHeaders, 1, key)
  IN IF key = "set-cookie" THEN Arr(values)
     ELSE IF key \in noDuplicatesHeaders THEN values[1]
     ELSE join(values, IF key = "cookie" THEN "; " ELSE ", ")

FoldedRight(rawHeaders, headers) ==
  /\ DOMAIN headers = KeysOf(rawHeaders)
  /\ \A key \in DOMAIN headers : headers[key] = Folded(rawHeaders, key)

\* C28: folding a raw header array gives one field per lower-cased name:
\* set-cookie is an array of all its values in order, a singleton-only name has
\* its first value, every other name has its values joined with ', ' ('; ' for
\* cookie) in one string
C28_Folding ==
  (fn.done /\ fn.op \in {"headersArrayToObject", "headersArrayToObjectNode"}) =>
    FoldedRight(fn.in, fn.out)

\* ------------------------------------------------------------------ C29
\* the request sends a header whose name is the declared name in some letter
\* case and whose value is the declared value
SentAsDeclared(in) ==
  \E n \in DOMAIN in.headers :
    /\ toLowerCase(n) = toLowerCase(in.name)
    /\ in.value.type = "string"
    /\ in.headers[n] = in.value

\* C29: a required header declared under any letter case of a name is matched
\* by a request that sends that name under any letter case with an equal value,
\* whenever the request could be made at all
C29_HeaderNameCase ==
  (fn.done /\ fn.op = "matchHeader" /\ SentAsDeclared(fn.in)) =>
    fn.out \in {"match", "throw"}

\* X-Foo: bar was declared, x-foo: bar was sent, and the request matched
C29_Witness ==
  /\ fn.done /\ fn.op = "matchHeader"
  /\ fn.in.name = "X-Foo"
  /\ DOMAIN fn.in.headers = {"x-foo"}
  /\ fn.in.value = Str(<<"bar">>) /\ fn.in.headers["x-foo"] = fn.in.value
  /\ fn.out = "match"

\* ------------------------------------------------------------------ C30
\* C30: for an expectation that is an object or an array, the body matches
\* exactly when it can be parsed and its parse is the expectation, value for
\* value and type for type; a body that cannot be parsed is a non-match, and
\* no call throws
C30_BodyStrict ==
  (fn.done /\ fn.op = "matchBody" /\ fn.in.spec.type \in {"object", "array"}) =>
    LET json == JSONparse(fn.in.body)
    IN /\ fn.out \in {"match", "no match"}
       /\ fn.out = "match" <=> (json.ok /\ json.value = fn.in.spec)
       /\ ~json.ok => fn.out = "no match"

\* {n: 1} was expected and the body {"n": "1"} did not match
C30_Witness ==
  /\ fn.done /\ fn.op = "matchBody"
  /\ fn.in.spec = Obj([n |-> Num(1)])
  /\ fn.in.body = <<"{", "\"n\"", ":", "\"1\"", "}">>
  /\ fn.out = "no match"

\* ------------------------------------------------------------------ C31
\* C31: the status of a definition is its status field when that is present,
\* otherwise the number its reply field gives, and 200 when neither gives a
\* number
C31_Status ==
  (fn.done /\ fn.op = "getStatusFromDefinition") =>
    fn.out = IF ~isUndefined(fn.in.status) THEN fn.in.status
             ELSE IF parseInt(fn.in.reply).type = "number" THEN parseInt(fn.in.reply)
             ELSE DEFAULT_STATUS_OK

\* ------------------------------------------------------------------ C32
\* C32: startPlayback has run only for requests on which end() was called, and
\* the body it matched is the whole body the request was given
C32_EndBeforeMatching ==
  \A r \in Req :
    req[r].runs > 0 =>
      /\ req[r].finished
      /\ req[r].matchedBody = Concat(req[r].requestBodyBuffers)

\* a direct end() call: the step of a user call in which the request becomes
\* finished
EndCall(r) == calls' = calls + 1 /\ ~req[r].finished /\ req'[r].finished

\* the socket-connected signal of request r fires in this step
SocketSignal(r) == req[r].connecting /\ ~req'[r].connecting

\* C33: an end() called before the socket-connected signal does not run
\* matching inside the call but defers it; the deferred matching runs exactly
\* once when the signal fires unless the request was aborted in between; an
\* end() called after the signal runs matching inside the call (on a request
\* that was not aborted).
C33_EndAndSocketSignal ==
  [][\A r \in Req :
       /\ (EndCall(r) /\ req[r].connecting) =>
            req'[r].runs = req[r].runs /\ req'[r].playbackOnSocket
       /\ (SocketSignal(r) /\ req[r].finished /\ ~req'[r].aborted) =>
            req[r].runs = 0 /\ req'[r].runs = 1
       /\ (EndCall(r) /\ ~req[r].connecting /\ ~req[r].aborted) =>
            req'[r].runs = req[r].runs + 1]_vars

\* the next-tick callback of request r, queued at its creation, has not run yet
SocketQueued(r) ==
  \E k \in 1..Len(tickQ) : tickQ[k].kind = "socket" /\ tickQ[k].r = r

\* C34: a request not aborted within the tick of its creation emits 'socket'
\* exactly once, on the next tick (no other task begins and no timer or
\* immediate callback runs while the callback is queued), and before every 'finish', 'response' and no-match 'error' of
\* that request.
C34_SocketFirst ==
  /\ [](\A r \in Req :
          req[r].created =>
            /\ Cardinality(Idx(r, "socket")) <= 1
            /\ SocketQueued(r) => ~Has(r, "socket")
            /\ (~SocketQueued(r) /\ ~Has(r, "socket")) => req[r].aborted
            /\ \A name \in {"finish", "response"} :
                 Has(r, name) =>
                   Has(r, "socket") /\ Before(Idx(r, "socket"), Idx(r, name))
            /\ HasErr(r, "NOMATCH") =>
                 /\ Has(r, "socket")
                 /\ Before(Idx(r, "socket"), ErrIdx(r, "NOMATCH")))
  /\ [][\A r \in Req :
          SocketQueued(r) => /\ ~(~inTask /\ inTask')
                             /\ Len(macroQ') >= Len(macroQ)]_vars

C34_Witness ==
  \E r \in Req :
    /\ Idx(r, "socket") = {1}
    /\ Has(r, "finish") /\ Has(r, "response")
    /\ req[r].aborted

\* abort() is called on request r in this step
AbortCall(r) == req'[r].abortCalls > req[r].abortCalls

\* C35: once abort() has been called on a request, its socket emits neither
\* 'connect' nor 'secureConnect': not in a later step, and not in the rest of
\* the step in which a 'socket' listener called abort().
C35_NoConnectAfterAbort ==
  [][\A r \in Req :
       (req[r].abortCalls > 0 \/ AbortCall(r)) =>
         /\ Idx(r, "connect")' = Idx(r, "connect")
         /\ Idx(r, "secureConnect")' = Idx(r, "secureConnect")]_vars

\* two distinct names of the header object fold to one lower-case name
Conflict(headers) ==
  \E j, k \in 1..Len(headers.v) :
    j # k /\ toLowerCase(headers.v[j].name) = toLowerCase(headers.v[k].name)

\* the same values under the lower-cased names
LowerCased(headers, out) ==
  /\ isObject(out)
  /\ DOMAIN out.v = {toLowerCase(headers.v[k].name) : k \in 1..Len(headers.v)}
  /\ \A k \in 1..Len(headers.v) :
       out.v[toLowerCase(headers.v[k].name)] = headers.v[k].value

\* C36: headersFieldNamesToLowerCase throws whenever two distinct names of its
\* input fold to one lower-case name, whatever the values, and else returns
\* the same values under the lower-cased names; the constructor of a request's
\* router throws for a conflicting header object.
C36_FieldNameConflict ==
  (fn.done /\ fn.op \in {"headersFieldNamesToLowerCase", "InterceptedRequestRouter"}
           /\ isObject(fn.in)) =>
    IF Conflict(fn.in) THEN fn.out = Throw ELSE LowerCased(fn.in, fn.out)

\* C37: a restore leaves the request and get functions of http and https
\* equal to the ones installed before the first override, after any sequence
\* of the two calls; an override attempted while the modules are overridden
\* throws and changes nothing; a restore never throws, with or without
\* anything overridden.
C37_OverrideAndRestore ==
  /\ [](fn.op = "restoreOverriddenRequests" =>
          modules = Native /\ fn.out = Undefined)
  /\ [][(modules # Native /\ fn'.op = "overrideRequests" /\ calls' = calls + 1) =>
          /\ fn'.out = Throw
          /\ modules' = modules
          /\ requestOverrides' = requestOverrides]_vars

\* a restore, the third call or a later one, that found both modules
\* overridden
C37_Witness ==
  /\ fn.op = "restoreOverriddenRequests"
  /\ fn.in = {"http", "https"}
  /\ calls >= 3
  /\ modules = Native /\ requestOverrides = <<>>

\* C38: Scope.remove(key, interceptor) takes at most the given Interceptor out
\* of the pending view: an Interceptor leaves the view only in the step that
\* marks that very Interceptor consumed, also when the Interceptor given to
\* remove is no longer in the list of its key.
C38_RemoveOnlyGiven ==
  [][\A j \in IcId :
       (j \in InView /\ j \notin InView') =>
         icp'[j].interceptionCounter > icp[j].interceptionCounter]_vars

\* C39: a call of persist, filteringPath or filteringRequestBody that throws
\* for its argument leaves the Scope as it was: the persist flag and the
\* filters installed before the call are unchanged.
C39_ThrowLeavesScope ==
  (fn.done /\ fn.op \in {"persist", "filteringPath", "filteringRequestBody"}
           /\ fn.out.thrown) =>
    fn.out.scope = fn.in.scope

\* the bytes come back from their UTF-8 decoding
Reconstructible(buffer) == bufferFromUtf8(toStringUtf8(buffer)) = buffer

\* C40: the body string handed to the Matcher is the UTF-8 decoding of the
\* concatenated writes when the bytes can be reconstructed from that decoding,
\* and their hexadecimal representation only when they cannot.
C40_BodyString ==
  (fn.done /\ fn.op = "requestBodyString") =>
    fn.out = IF Reconstructible(Concat(fn.in)) THEN toStringUtf8(Concat(fn.in))
             ELSE toStringHex(Concat(fn.in))
====
